---- MODULE Spec2Model ----
(***************************************************************************)
(* F4Vision per-frame pipeline (src/F4Vision_helper.py): region selection, *)
(* blob detection, cluster consolidation, history, target selection, lock  *)
(* vector and the 10-byte output payload.                                  *)
(*                                                                         *)
(* Numbers.  Lock vectors are fractions.  Every value the lock engine and  *)
(* the manual override can produce from integer deltas, speeds and         *)
(* percentages is a multiple of 1/5000 (0.02 = 1/50, override /100), so a  *)
(* move is held as an integer count of 1/MoveDen.  The 32-bit fixed-point  *)
(* word is held as a pair <<hi, lo>> meaning hi * 65536 + lo with          *)
(* lo \in 0..65535, because the model checker's integers are themselves    *)
(* 32 bits wide and the word must be allowed to leave that range.  The    *)
(* code computes the moves in binary floating point; for integer deltas   *)
(* up to 1000 pixels and the speeds and percentages used here            *)
(* int(float(v) * 0x10000) of the float equals the truncation of the      *)
(* exact fraction.                                                         *)
(***************************************************************************)
EXTENDS Integers, Sequences, FiniteSets, TLC

----------------------------------------------------------------------------
(* Generic helpers *)

Abs(n) == IF n < 0 THEN -n ELSE n

Range(s) == {s[i] : i \in 1..Len(s)}

SeqsUpTo(S, n) == UNION {[1..k -> S] : k \in 0..n}

Perms(n) == {p \in [1..n -> 1..n] : \A i, j \in 1..n : i # j => p[i] # p[j]}

\* the multiset of a sequence's elements, as a function element -> count
BagOf(s) ==
    [e \in Range(s) |-> Cardinality({i \in 1..Len(s) : s[i] = e})]

----------------------------------------------------------------------------
(* Detections *)

\* the dict detect_all_pixels appends for a component at (x, y), w by h
MkDet(x, y, w, h, area) ==
    [coords |-> <<x, y, x + w, y + h>>, confidence |-> 90,
     width |-> w, height |-> h, area |-> area,
     center |-> <<x + (w \div 2), y + (h \div 2)>>, pixel_count |-> area]

----------------------------------------------------------------------------
(* Cluster Consolidator: cluster_similar_enemies *)

\* (x1 + x2) // 2, (y1 + y2) // 2
CoordsCenter(c) == <<(c[1] + c[3]) \div 2, (c[2] + c[4]) \div 2>>

\* distance < 10, on integer centers: the square root of an integer is
\* below 10 exactly when the integer is below 100
WithinClusterDistance_le(c, o) ==
    (c[1] - o[1]) * (c[1] - o[1]) + (c[2] - o[2]) * (c[2] - o[2]) <= 100

WithinClusterDistance(c, o) ==
    (c[1] - o[1]) * (c[1] - o[1]) + (c[2] - o[2]) * (c[2] - o[2]) < 100

RECURSIVE Absorb(_, _, _, _, _, _)
\* the inner loop "for j, other_det in enumerate(detections)" for the seed
\* with center c; visit is the order in which the loop meets the indices
\* (the code's order is 1, 2, 3, ...).  Returns the cluster and the used set.
Absorb(dets, visit, k, c, cluster, used) ==
    IF k > Len(visit) THEN [cluster |-> cluster, used |-> used]
    ELSE LET j == visit[k] IN
         IF j \in used THEN Absorb(dets, visit, k + 1, c, cluster, used)
         ELSE IF WithinClusterDistance(c, CoordsCenter(dets[j].coords))
              THEN Absorb(dets, visit, k + 1, c,
                          Append(cluster, dets[j]), used \cup {j})
              ELSE Absorb(dets, visit, k + 1, c, cluster, used)

RECURSIVE FormClusters(_, _, _, _, _)
\* the outer loop "for i, det in enumerate(detections)": the clusters formed,
\* each a sequence seed-first
FormClusters(dets, visit, i, used, clusters) ==
    IF i > Len(dets) THEN clusters
    ELSE IF i \in used THEN FormClusters(dets, visit, i + 1, used, clusters)
    ELSE LET r == Absorb(dets, visit, 1, CoordsCenter(dets[i].coords),
                         <<dets[i]>>, used \cup {i})
         IN FormClusters(dets, visit, i + 1, r.used, Append(clusters, r.cluster))

RECURSIVE MaxByAreaFrom(_, _, _)
MaxByAreaFrom(s, k, best) ==
    IF k > Len(s) THEN best
    ELSE MaxByAreaFrom(s, k + 1, IF s[k].area > best.area THEN s[k] ELSE best)

RECURSIVE LastMaxByAreaFrom(_, _, _)
LastMaxByAreaFrom(s, k, best) ==
    IF k > Len(s) THEN best
    ELSE LastMaxByAreaFrom(s, k + 1, IF s[k].area >= best.area THEN s[k] ELSE best)

\* a max that keeps the last of equal areas
MaxByArea_last(s) == LastMaxByAreaFrom(s, 2, s[1])

\* a "best" that ignores area and keeps the member absorbed last
MaxByArea_lastMember(s) == s[Len(s)]

\* a "best" that ignores area and keeps the seed
MaxByArea_seed(s) == s[1]

\* max(cluster, key=lambda x: x['area']) on a non-empty list: the first
\* member of maximum area
MaxByArea(s) == MaxByAreaFrom(s, 2, s[1])

\* the clusters the code forms, visiting candidates in the given order
ClustersVisited(dets, visit) == FormClusters(dets, visit, 1, {}, <<>>)

\* consolidation with the absorption loop visiting candidates in `visit`
ClusterVisited(dets, visit) ==
    LET cl == ClustersVisited(dets, visit)
    IN [k \in 1..Len(cl) |-> MaxByArea(cl[k])]

IdentityVisit(n) == [k \in 1..n |-> k]

\* cluster_similar_enemies(detections)
cluster_similar_enemies(dets) == ClusterVisited(dets, IdentityVisit(Len(dets)))

----------------------------------------------------------------------------
(* Lock Vector Engine: perfect_target_lock *)

\* moves are counted in units of 1/MoveDen: 0.02 is 1/50, the override
\* divides by 100.0
MoveDen == 50 * 100

\* min_move = 0.5
MinMove == MoveDen \div 2

\* one axis of the lock: delta * base_multiplier * speed, then the
\* minimum-movement floor (abs(delta) > 0.5 is delta # 0 on integers)
LockAxis_noFloor(delta, speed) == delta * speed * (MoveDen \div 50)

\* a floor that always pushes to +0.5, whatever the side the target is on
LockAxis_floorUp(delta, speed) ==
    IF Abs(delta * speed * (MoveDen \div 50)) < MinMove /\ delta # 0
    THEN MinMove
    ELSE delta * speed * (MoveDen \div 50)

LockAxis(delta, speed) ==
    LET move == delta * speed * (MoveDen \div 50) IN
    IF Abs(move) < MinMove /\ delta # 0
    THEN (IF delta > 0 THEN MinMove ELSE -MinMove)
    ELSE move

\* a lock without the "distance < 2" return
perfect_target_lock_noDeadZone(target_x, target_y, speedX, speedY) ==
    <<LockAxis(target_x - 960, speedX), LockAxis(target_y - 540, speedY)>>

\* a lock that scales both axes by speedX
perfect_target_lock_oneSpeed(target_x, target_y, speedX, speedY) ==
    IF (target_x - 960) * (target_x - 960) + (target_y - 540) * (target_y - 540) < 4
    THEN <<0, 0>>
    ELSE <<LockAxis(target_x - 960, speedX), LockAxis(target_y - 540, speedX)>>

\* perfect_target_lock(target_x, target_y, speedX, speedY)
perfect_target_lock(target_x, target_y, speedX, speedY) ==
    LET delta_x == target_x - 960
        delta_y == target_y - 540
    IN IF delta_x * delta_x + delta_y * delta_y < 4
       THEN <<0, 0>>
       ELSE <<LockAxis(delta_x, speedX), LockAxis(delta_y, speedY)>>

\* an override that halves the move whatever the percentage
ApplyOverride_half(move, pct) == move \div 2

\* rx * reduction_factor with reduction_factor = (100 - pct) / 100.0; every
\* lock value is a whole number of hundredths of a unit
ApplyOverride(move, pct) == (move \div 100) * (100 - pct)

----------------------------------------------------------------------------
(* Output Encoder: the conversions of process() *)

\* the fixed-point word of |v| = m / MoveDen, m >= 0, cut toward zero
TruncMagnitude(m) ==
    <<m \div MoveDen, ((m % MoveDen) * 65536) \div MoveDen>>

\* the same, rounded to nearest (no value m / MoveDen * 65536 lies exactly
\* half-way between two integers unless it is an integer)
RoundMagnitude(m) ==
    LET f == ((m % MoveDen) * 131072 + MoveDen) \div (2 * MoveDen)
    IN IF f = 65536 THEN <<(m \div MoveDen) + 1, 0>> ELSE <<m \div MoveDen, f>>

\* -(hi * 65536 + lo) as a pair with lo in 0..65535
NegWord(w) == IF w[2] = 0 THEN <<-w[1], 0>> ELSE <<-w[1] - 1, 65536 - w[2]>>

\* round(v * 65536)
RoundedInt(n) == IF n >= 0 THEN RoundMagnitude(n) ELSE NegWord(RoundMagnitude(-n))

\* a conversion that takes the floor instead of cutting toward zero
ScaledInt_floor(n) ==
    <<n \div MoveDen, ((n % MoveDen) * 65536) \div MoveDen>>

\* int(float(v) * 0x10000): int() cuts toward zero
ScaledInt(n) == IF n >= 0 THEN TruncMagnitude(n) ELSE NegWord(TruncMagnitude(-n))

\* to_bytes(4, signed=True) raises OverflowError outside -2^31 .. 2^31 - 1
Fits32(w) == -32768 <= w[1] /\ w[1] <= 32767

\* a writer that drops the sign of the word
to_bytes4_unsigned(w) ==
    LET u == Abs(w[1]) % 65536
    IN <<u \div 256, u % 256, w[2] \div 256, w[2] % 256>>

\* int.to_bytes(4, byteorder="big", signed=True) of a word that fits
to_bytes4(w) ==
    LET u == w[1] % 65536
    IN <<u \div 256, u % 256, w[2] \div 256, w[2] % 256>>

\* int.to_bytes(2, byteorder="big", signed=False)
to_bytes2(n) == <<n \div 256, n % 256>>

\* the device's reading of the payload: big-endian signed 32-bit word
from_bytes4(b) ==
    LET u == b[1] * 256 + b[2]
    IN <<IF u >= 32768 THEN u - 65536 ELSE u, b[3] * 256 + b[4]>>

\* big-endian unsigned 16-bit
from_bytes2(b) == b[1] * 256 + b[2]

----------------------------------------------------------------------------
(* Frames.  A frame is the 1920 x 1080 pixel grid; it is held sparsely, as *)
(* a function from the pixels that are not background to their (b, g, r)   *)
(* colour.  The background is black.                                       *)

Black == <<0, 0, 0>>
White == <<255, 255, 255>>

PixelAt(frame, p) == IF p \in DOMAIN frame THEN frame[p] ELSE Black

RectPixels(x, y, w, h) == (x..(x + w - 1)) \X (y..(y + h - 1))

\* a black frame with the given solid rectangles <<x, y, w, h, colour>>,
\* later ones painted over earlier ones
RECURSIVE PaintRects(_, _, _)
PaintRects(frame, rects, k) ==
    IF k > Len(rects) THEN frame
    ELSE LET r == rects[k]
             px == RectPixels(r[1], r[2], r[3], r[4])
         IN PaintRects([p \in DOMAIN frame \cup px |->
                           IF p \in px THEN r[5] ELSE frame[p]], rects, k + 1)

FrameOf(rects) == PaintRects(<<>>, rects, 1)

----------------------------------------------------------------------------
(* Blob Detector: detect_all_pixels *)

\* cv2.inRange on one pixel: inclusive on each of the three channels
InRange(c, lower, upper) == \A k \in 1..3 : lower[k] <= c[k] /\ c[k] <= upper[k]

\* connectivity=4: the pixels sharing a side with p
Neighbours4(p) ==
    {<<p[1] + 1, p[2]>>, <<p[1] - 1, p[2]>>, <<p[1], p[2] + 1>>, <<p[1], p[2] - 1>>}

\* connectivity=8: the eight pixels around p
Neighbours8(p) ==
    {<<p[1] + dx, p[2] + dy>> : dx \in {-1, 0, 1}, dy \in {-1, 0, 1}} \ {p}

RECURSIVE Grow(_, _, _)
\* the component of `mask` holding the pixels of `comp`, `front` being the
\* pixels added last
Grow(front, comp, mask) ==
    LET next == ((UNION {Neighbours8(p) : p \in front}) \cap mask) \ comp
    IN IF next = {} THEN comp ELSE Grow(next, comp \cup next, mask)

\* the first pixel of a set in raster order (top row first, then leftmost)
FirstPixel(S) ==
    CHOOSE p \in S : \A q \in S : p[2] < q[2] \/ (p[2] = q[2] /\ p[1] <= q[1])

RECURSIVE Components(_)
\* the connected components of the mask, in raster order of their first pixel
Components(mask) ==
    IF mask = {} THEN <<>>
    ELSE LET comp == Grow({FirstPixel(mask)}, {FirstPixel(mask)}, mask)
         IN <<comp>> \o Components(mask \ comp)

MinOf(S) == CHOOSE m \in S : \A n \in S : m <= n
MaxOf(S) == CHOOSE m \in S : \A n \in S : m >= n

\* one row of cv2.connectedComponentsWithStats: left, top, width, height, area
StatsOf(comp) ==
    LET xs == {p[1] : p \in comp}
        ys == {p[2] : p \in comp}
    IN [x |-> MinOf(xs), y |-> MinOf(ys),
        w |-> MaxOf(xs) - MinOf(xs) + 1, h |-> MaxOf(ys) - MinOf(ys) + 1,
        area |-> Cardinality(comp)]

\* a size filter that forgets the upper bounds
SizeOk_noMax(st, size) ==
    size.width[1] <= st.w /\ size.height[1] <= st.h

\* not (min_width <= w <= max_width) or not (min_height <= h <= max_height)
\* is the condition to skip the component
SizeOk(st, size) ==
    /\ size.width[1] <= st.w /\ st.w <= size.width[2]
    /\ size.height[1] <= st.h /\ st.h <= size.height[2]

RECURSIVE KeepSized(_, _, _)
\* the loop over the labels 1 .. num_labels - 1
KeepSized(stats, size, i) ==
    IF i > Len(stats) THEN <<>>
    ELSE (IF SizeOk(stats[i], size)
          THEN <<MkDet(stats[i].x, stats[i].y, stats[i].w, stats[i].h, stats[i].area)>>
          ELSE <<>>) \o KeepSized(stats, size, i + 1)

\* the mask of an image under a colour range
MaskOf(img, lower, upper) == {p \in DOMAIN img : InRange(img[p], lower, upper)}

RECURSIVE StatsOfAll(_, _)
StatsOfAll(comps, i) ==
    IF i > Len(comps) THEN <<>>
    ELSE <<StatsOf(comps[i])>> \o StatsOfAll(comps, i + 1)

\* cv2.inRange followed by cv2.connectedComponentsWithStats(connectivity=8)
\* on an image: the stats rows of the labels 1 .. num_labels - 1
LabelImage(img, lower, upper) == StatsOfAll(Components(MaskOf(img, lower, upper)), 1)

----------------------------------------------------------------------------
(* Settings: the settings.py module and the cached_* fields *)

\* an attribute of the settings module is <<>> (not defined) or <<value>>
Get(m, a, default) == IF m[a] = <<>> THEN default ELSE m[a][1]

SettingsAttrs ==
    {"boundingBoxWidth", "boundingBoxHeight", "boundingBoxColor",
     "showBoundingBox", "adaptiveBoundingBox", "manualOveride", "speedX",
     "speedY", "aimSmoothing", "aimOffsetX", "aimOffsetY",
     "manualOverridePercentage", "aimActivationButton"}

NoModule == [a \in SettingsAttrs |-> <<>>]

\* importlib.reload executes the file in the module's existing namespace:
\* names the new file does not define keep their old values
ReloadInto(module, content) ==
    [a \in SettingsAttrs |-> IF content[a] # <<>> THEN content[a] ELSE module[a]]

\* the cached_* fields as __init__ sets them
InitCached ==
    [bbox_width |-> 720, bbox_height |-> 480, showBoundingBox |-> TRUE,
     adaptiveBoundingBox |-> FALSE, manualOveride |-> TRUE,
     speedX |-> 9, speedY |-> 9, aimOffsetX |-> 0, aimOffsetY |-> 0,
     manualOverridePercentage |-> 50]

\* the assignments "Update cached values" of get_fresh_settings, in order;
\* settings.<name> raises AttributeError when the name is not defined, which
\* ends the update where it stands, getattr(settings, name, default) does not
UpdateCached(c, m) ==
    LET c2 == [c EXCEPT !.bbox_width = Get(m, "boundingBoxWidth", 720),
                        !.bbox_height = Get(m, "boundingBoxHeight", 480)]
    IN IF m["boundingBoxColor"] = <<>> \/ m["showBoundingBox"] = <<>> THEN c2 ELSE
       LET c4 == [c2 EXCEPT !.showBoundingBox = m["showBoundingBox"][1]]
       IN IF m["adaptiveBoundingBox"] = <<>> THEN c4 ELSE
       LET c5 == [c4 EXCEPT !.adaptiveBoundingBox = m["adaptiveBoundingBox"][1]]
       IN IF m["manualOveride"] = <<>> THEN c5 ELSE
       LET c6 == [c5 EXCEPT !.manualOveride = m["manualOveride"][1]]
       IN IF m["speedX"] = <<>> THEN c6 ELSE
       LET c7 == [c6 EXCEPT !.speedX = m["speedX"][1]]
       IN IF m["speedY"] = <<>> THEN c7 ELSE
       LET c8 == [c7 EXCEPT !.speedY = m["speedY"][1]]
       IN IF m["aimSmoothing"] = <<>> THEN c8 ELSE
       [c8 EXCEPT !.aimOffsetX = Get(m, "aimOffsetX", 0),
                  !.aimOffsetY = Get(m, "aimOffsetY", 0),
                  !.manualOverridePercentage = Get(m, "manualOverridePercentage", 50)]

\* get_fresh_settings(): st holds cached, last_file_mtime and the module; the
\* file is [state: "ok" | "syntax" | "missing", mtime, content]
get_fresh_settings(st, file, due) ==
    IF ~due THEN st
    ELSE IF file.state = "missing" THEN st              \* getmtime raises
    ELSE IF ~(file.mtime > st.last_file_mtime) THEN st
    ELSE IF file.state = "syntax"                        \* reload raises
         THEN [st EXCEPT !.last_file_mtime = file.mtime]
    ELSE LET m == ReloadInto(st.module, file.content)
         IN [cached |-> UpdateCached(st.cached, m),
             last_file_mtime |-> file.mtime, module |-> m]

\* button_mapping.get(button_constant, 7)
ButtonMapping(name) ==
    CASE name \in {"BUTTON_5", "L1"} -> 5
      [] name \in {"BUTTON_6", "L2"} -> 6
      [] name \in {"BUTTON_7", "R1"} -> 7
      [] name \in {"BUTTON_8", "R2"} -> 8
      [] OTHER -> 7

\* get_aim_button_id(): reloads the module on every call; any exception
\* (file missing, file not loadable) gives 7.  Returns the id and the module.
get_aim_button_id(module, file) ==
    IF file.state # "ok" THEN [id |-> 7, module |-> module]
    ELSE LET m == ReloadInto(module, file.content)
         IN [id |-> ButtonMapping(Get(m, "aimActivationButton", "BUTTON_7")),
             module |-> m]

----------------------------------------------------------------------------
(* Pattern Store: check_pxd_control, load_single_pxd_file, unload_pxd_files *)

NoFile == "None"

\* cached_pxd_low_color, cached_pxd_high_color, cached_enemy_size_range
cached_pxd_low_color == <<61, 0, 102>>
cached_pxd_high_color == <<255, 45, 254>>
cached_enemy_size_range ==
    [min_width |-> 5, max_width |-> 12, min_height |-> 5, max_height |-> 12]

\* what a pattern file on disk declares (json.loads of its text): "a.pxd"
\* declares a range around pure green, "b.pxd" a range around magenta
PxdFileContent(name) ==
    IF name = "a.pxd"
    THEN [color_lower_bgr |-> <<0, 200, 0>>, color_upper_bgr |-> <<80, 255, 80>>,
          size |-> [width |-> <<4, 16>>, height |-> <<4, 16>>]]
    ELSE [color_lower_bgr |-> <<150, 0, 150>>, color_upper_bgr |-> <<255, 60, 255>>,
          size |-> [width |-> <<4, 16>>, height |-> <<4, 16>>]]

\* the pattern load_single_pxd_file appends: colour range and size come from
\* the cached values, whatever the file holds
PatternOf(name) ==
    [color_lower_bgr |-> cached_pxd_low_color,
     color_upper_bgr |-> cached_pxd_high_color,
     size |-> [width |-> <<cached_enemy_size_range.min_width,
                           cached_enemy_size_range.max_width>>,
               height |-> <<cached_enemy_size_range.min_height,
                            cached_enemy_size_range.max_height>>],
     source_file |-> name]

\* load_single_pxd_file: the list is emptied first; a file that cannot be
\* read or parsed leaves it empty
load_single_pxd_file(name, loadable) ==
    IF name \in loadable THEN <<PatternOf(name)>> ELSE <<>>

\* a poll that appends the loaded pattern to the ones already held
check_pxd_control_append(st, control, loadable, due) ==
    IF ~due \/ control \in {"malformed", st.active_pxd_file} THEN st
    ELSE IF control \in {"absent", NoFile}
         THEN [pxd_patterns |-> <<>>, active_pxd_file |-> NoFile]
         ELSE [pxd_patterns |-> st.pxd_patterns \o load_single_pxd_file(control, loadable),
               active_pxd_file |-> control]

\* check_pxd_control(): st holds pxd_patterns and active_pxd_file; control is
\* "absent", "malformed" or the name the control file gives (NoFile for null)
check_pxd_control(st, control, loadable, due) ==
    IF ~due THEN st
    ELSE IF control = "absent"
         THEN (IF st.active_pxd_file # NoFile
               THEN [pxd_patterns |-> <<>>, active_pxd_file |-> NoFile]
               ELSE st)
    ELSE IF control = "malformed" THEN st                \* json.load raises
    ELSE IF control = st.active_pxd_file THEN st
    ELSE IF control # NoFile
         THEN [pxd_patterns |-> load_single_pxd_file(control, loadable),
               active_pxd_file |-> control]
         ELSE [pxd_patterns |-> <<>>, active_pxd_file |-> NoFile]

----------------------------------------------------------------------------
(* Region Selector and the crop of predict() *)

Max2(a, b) == IF a >= b THEN a ELSE b
Min2(a, b) == IF a <= b THEN a ELSE b

\* int(v * 1.5) for an integer v: cut toward zero
AdaptiveDim(v) == IF v >= 0 THEN (3 * v) \div 2 ELSE -((3 * (-v)) \div 2)

\* X1, Y1, X2, Y2 around the screen centre (960, 540)
CenteredBox(w, h) ==
    [X1 |-> Max2(0, 960 - (w \div 2)), Y1 |-> Max2(0, 540 - (h \div 2)),
     X2 |-> Min2(1920, 960 + (w \div 2)), Y2 |-> Min2(1080, 540 + (h \div 2))]

\* an ROI that grows whenever adaptiveBoundingBox is set, pressed or not
RoiOf_ignoresTrigger(c, button_7) ==
    IF c.adaptiveBoundingBox
    THEN CenteredBox(AdaptiveDim(c.bbox_width), AdaptiveDim(c.bbox_height))
    ELSE CenteredBox(c.bbox_width, c.bbox_height)

\* the ROI of predict(): the adaptive box replaces the plain one when
\* adaptiveBoundingBox is set and button_7 is pressed
RoiOf(c, button_7) ==
    IF c.adaptiveBoundingBox /\ button_7 > 0
    THEN CenteredBox(AdaptiveDim(c.bbox_width), AdaptiveDim(c.bbox_height))
    ELSE CenteredBox(c.bbox_width, c.bbox_height)

\* "if Y2 > Y1 and X2 > X1": the ROI is cropped, otherwise the frame is used
Cropped(roi) == roi.Y2 > roi.Y1 /\ roi.X2 > roi.X1

\* the pixels cv2.rectangle(final, (X1, Y1), (X2, Y2), white, 1) writes
OnBox(p, roi) ==
    LET xa == Min2(roi.X1, roi.X2)
        xb == Max2(roi.X1, roi.X2)
        ya == Min2(roi.Y1, roi.Y2)
        yb == Max2(roi.Y1, roi.Y2)
    IN /\ xa <= p[1] /\ p[1] <= xb /\ ya <= p[2] /\ p[2] <= yb
       /\ (p[1] = xa \/ p[1] = xb \/ p[2] = ya \/ p[2] = yb)

\* the frame after the ROI box is drawn on it (final is the frame itself).
\* Only the listed pixels are rewritten: a background pixel turned white
\* stays outside every colour range the patterns can hold.
DrawBox(frame, roi, show) ==
    IF ~show THEN frame
    ELSE [p \in DOMAIN frame |-> IF OnBox(p, roi) THEN White ELSE frame[p]]

\* img0: frame[Y1:Y2, X1:X2] in ROI-local coordinates, or the whole frame
CropOf(frame, roi) ==
    IF Cropped(roi)
    THEN LET inside == {p \in DOMAIN frame :
                          /\ roi.X1 <= p[1] /\ p[1] < roi.X2
                          /\ roi.Y1 <= p[2] /\ p[2] < roi.Y2}
         IN [q \in {<<p[1] - roi.X1, p[2] - roi.Y1>> : p \in inside} |->
                frame[<<q[1] + roi.X1, q[2] + roi.Y1>>]]
    ELSE frame

\* the image the detector is given in predict()
DetectorInput(frame, roi, show) == CropOf(DrawBox(frame, roi, show), roi)

----------------------------------------------------------------------------
(* The inputs the model draws frames and settings files from *)

\* colours: inside the cached range (its two corners and an inner point) and
\* outside it
InLow == <<61, 0, 102>>
InHigh == <<255, 45, 254>>
Inner == <<200, 20, 200>>
Green == <<0, 255, 0>>

\* the frames a cycle can be given.  None has an in-range pixel in the band
\* under the watermark text (top rows, around x = 960), so the black
\* watermark that process() writes first leaves every mask as it is.
Frames ==
    << FrameOf(<<>>),
       FrameOf(<< <<966, 541, 8, 8, Inner>>, <<940, 560, 8, 8, Green>> >>),
       FrameOf(<< <<1000, 500, 5, 5, InLow>>, <<1008, 499, 6, 6, InHigh>>,
                  <<940, 520, 13, 5, Inner>>, <<940, 540, 4, 6, Inner>> >>),
       FrameOf(<< <<980, 580, 3, 3, Inner>>, <<983, 583, 3, 3, Inner>> >>),
       FrameOf(<< <<596, 536, 8, 8, Inner>> >>),
       FrameOf(<< <<950, 530, 6, 6, Inner>>, <<990, 560, 6, 6, Inner>> >>),
       FrameOf(<< <<957, 537, 7, 6, Inner>> >>),
       FrameOf(<< <<958, 538, 6, 6, Inner>> >>),
       FrameOf(<< <<597, 536, 8, 8, Inner>> >>) >>

FrameIds == 1..Len(Frames)

SettingsContent(w, h, show, adaptive, override, sx, sy, ox, oy, pct, btn) ==
    [a \in SettingsAttrs |->
        CASE a = "boundingBoxWidth" -> w
          [] a = "boundingBoxHeight" -> h
          [] a = "boundingBoxColor" -> <<1>>
          [] a = "showBoundingBox" -> show
          [] a = "adaptiveBoundingBox" -> adaptive
          [] a = "manualOveride" -> override
          [] a = "speedX" -> sx
          [] a = "speedY" -> sy
          [] a = "aimSmoothing" -> <<FALSE>>
          [] a = "aimOffsetX" -> ox
          [] a = "aimOffsetY" -> oy
          [] a = "manualOverridePercentage" -> pct
          [] OTHER -> btn]

\* the versions of settings.py the settings editor (or a hand edit) writes
SettingsFiles ==
    << SettingsContent(<<720>>, <<480>>, <<TRUE>>, <<FALSE>>, <<TRUE>>,
                       <<9>>, <<9>>, <<0>>, <<0>>, <<50>>, <<"BUTTON_7">>),
       SettingsContent(<<720>>, <<480>>, <<FALSE>>, <<TRUE>>, <<FALSE>>,
                       <<9>>, <<40000>>, <<-3>>, <<2>>, <<25>>, <<"L2">>),
       SettingsContent(<<200>>, <<200>>, <<TRUE>>, <<TRUE>>, <<TRUE>>,
                       <<40000>>, <<1>>, <<>>, <<>>, <<>>, <<"R9">>),
       SettingsContent(<<0>>, <<480>>, <<TRUE>>, <<FALSE>>, <<FALSE>>,
                       <<3>>, <<>>, <<0>>, <<0>>, <<100>>, <<>>) >>

----------------------------------------------------------------------------
(* Views.  predict() hands the detector img0, a numpy view of the frame:   *)
(* the frame, the ROI it is cut to and whether the ROI box was drawn on    *)
(* the frame beforehand.                                                   *)

ViewOf(f, roi, show) == [frame |-> f, roi |-> roi, show |-> show]

\* the pixels of a view
ImageOf(view) == DetectorInput(Frames[view.frame], view.roi, view.show)

\* the box sizes the cached settings can hold, plain and then adaptive
PlainDims ==
    << <<InitCached.bbox_width, InitCached.bbox_height>> >> \o
    [i \in 1..Len(SettingsFiles) |->
        <<Get(SettingsFiles[i], "boundingBoxWidth", 720),
          Get(SettingsFiles[i], "boundingBoxHeight", 480)>>]

BoxDims ==
    PlainDims \o
    [i \in 1..Len(PlainDims) |->
        <<AdaptiveDim(PlainDims[i][1]), AdaptiveDim(PlainDims[i][2])>>]

\* the views of the model, numbered
NumViews == Len(Frames) * Len(BoxDims) * 2

ViewAt(i) ==
    LET f == ((i - 1) % Len(Frames)) + 1
        j == (i - 1) \div Len(Frames)
        d == BoxDims[(j % Len(BoxDims)) + 1]
    IN ViewOf(f, CenteredBox(d[1], d[2]), (j \div Len(BoxDims)) = 1)

RECURSIVE LabelRange(_, _)
\* the views lo .. hi with their labellings, by halves
LabelRange(lo, hi) ==
    IF lo > hi THEN <<>>
    ELSE IF lo = hi
    THEN << <<ViewAt(lo), LabelImage(ImageOf(ViewAt(lo)), cached_pxd_low_color,
                                     cached_pxd_high_color)>> >>
    ELSE LabelRange(lo, (lo + hi) \div 2) \o LabelRange(((lo + hi) \div 2) + 1, hi)

\* the labelling of every view of the model under the cached colour range,
\* computed once
LabelMemo == LabelRange(1, NumViews)

\* the labelling of a view: looked up when it is the cached range on a view
\* of the model, computed otherwise
LabelLookup(memo, view, lower, upper) ==
    IF /\ lower = cached_pxd_low_color /\ upper = cached_pxd_high_color
       /\ \E i \in 1..Len(memo) : memo[i][1] = view
    THEN memo[CHOOSE i \in 1..Len(memo) : memo[i][1] = view][2]
    ELSE LabelImage(ImageOf(view), lower, upper)

LabelView(view, lower, upper) == LabelLookup(LabelMemo, view, lower, upper)

\* detect_all_pixels(frame, pattern), the labels taken in the order `order`
\* (a permutation of the components: the labelling order is the library's)
Reordered(stats, order) == [i \in 1..Len(stats) |-> stats[order[i]]]

detect_all_pixels(view, pattern, order) ==
    KeepSized(Reordered(LabelView(view, pattern.color_lower_bgr,
                                  pattern.color_upper_bgr), order),
              pattern.size, 1)

----------------------------------------------------------------------------
(* History, target selection *)

\* deque(maxlen=5)
HistoryLen == 5

\* deque.append on a bounded deque: the oldest entry goes when it is full
\* a list that is never trimmed
DequeAppend_unbounded(h, e) == Append(h, e)

DequeAppend(h, e) ==
    IF Len(h) < HistoryLen THEN Append(h, e) ELSE Append(Tail(h), e)

\* rectangleScaling(x1, y1, x2, y2) = int((x1 + x2) / 2), int((y1 + y2) / 2)
\* on non-negative sums
rectangleScaling(x1, y1, x2, y2) == <<(x1 + x2) \div 2, (y1 + y2) \div 2>>

----------------------------------------------------------------------------
(* predict() and process() *)

RECURSIVE DetectAll(_, _, _, _)
\* "for pattern in self.pxd_patterns: all_detections.extend(...)"
DetectAll(img, patterns, order, k) ==
    IF k > Len(patterns) THEN <<>>
    ELSE detect_all_pixels(img, patterns[k], order) \o DetectAll(img, patterns, order, k + 1)

\* detect_with_pxd_patterns after check_pxd_control: the raw detections and
\* the consolidated ones
Consolidated(all_detections) ==
    [raw |-> all_detections,
     out |-> IF all_detections # <<>>
             THEN cluster_similar_enemies(all_detections)
             ELSE all_detections]

detect_with_pxd_patterns(img, patterns, order) ==
    Consolidated(DetectAll(img, patterns, order, 1))

\* apply_temporal_filtering: the set is recorded and handed back as it came
\* a filter that lets detections through only once the cycle before had some
apply_temporal_filtering_confirming(history, current_detections) ==
    [history |-> DequeAppend(history, current_detections),
     out |-> IF history # <<>> /\ history[Len(history)] # <<>>
             THEN current_detections ELSE <<>>]

apply_temporal_filtering(history, current_detections) ==
    [history |-> DequeAppend(history, current_detections),
     out |-> current_detections]

\* the number of components the labelling of a cycle finds (0 with no pattern)
NumLabels(img, patterns) ==
    IF patterns = <<>> THEN 0
    ELSE Len(LabelView(img, patterns[1].color_lower_bgr, patterns[1].color_upper_bgr))

\* predict(), last part: the lock of the target centre and the manual
\* override ("if manualOveride and button_9 > 0")
predict_moves(c, button_9, roi, raw, filt, best_target, center, lock) ==
    [roi |-> roi, raw |-> raw, all_targets |-> filt.out,
     best_target |-> best_target, center |-> center, lock |-> lock,
     overridden |-> best_target # <<>> /\ c.manualOveride /\ button_9 > 0,
     rx |-> IF best_target # <<>> /\ c.manualOveride /\ button_9 > 0
            THEN ApplyOverride(lock[1], c.manualOverridePercentage)
            ELSE lock[1],
     ry |-> IF best_target # <<>> /\ c.manualOveride /\ button_9 > 0
            THEN ApplyOverride(lock[2], c.manualOverridePercentage)
            ELSE lock[2],
     history |-> filt.history]

\* the centre of the best target in frame coordinates, the aim offset added
TargetCenter(c, roi, b) ==
    <<rectangleScaling(b[1] + roi.X1, b[2] + roi.Y1,
                       b[3] + roi.X1, b[4] + roi.Y1)[1] + c.aimOffsetX,
      rectangleScaling(b[1] + roi.X1, b[2] + roi.Y1,
                       b[3] + roi.X1, b[4] + roi.Y1)[2] + c.aimOffsetY>>

\* a predict that runs the lock on the offset screen centre when no target
\* was selected
predict_center_unguarded(c, button_9, roi, raw, filt, best_target, center) ==
    predict_moves(c, button_9, roi, raw, filt, best_target, center,
                  IF best_target # <<>>
                  THEN perfect_target_lock(center[1], center[2], c.speedX, c.speedY)
                  ELSE perfect_target_lock(center[1] + c.aimOffsetX,
                                           center[2] + c.aimOffsetY,
                                           c.speedX, c.speedY))

\* predict(), "if best_target:" with rx, ry = 0, 0 otherwise
predict_center(c, button_9, roi, raw, filt, best_target, center) ==
    predict_moves(c, button_9, roi, raw, filt, best_target, center,
                  IF best_target # <<>>
                  THEN perfect_target_lock(center[1], center[2], c.speedX, c.speedY)
                  ELSE <<0, 0>>)

predict_target(c, button_9, roi, raw, filt, best_target) ==
    predict_center(c, button_9, roi, raw, filt, best_target,
                   IF best_target # <<>>
                   THEN TargetCenter(c, roi, best_target[1].coords)
                   ELSE <<960, 540>>)

\* predict(), "if all_targets: best_target = max(all_targets, key=area)"
predict_filtered(c, button_9, roi, raw, filt) ==
    predict_target(c, button_9, roi, raw, filt,
                   IF filt.out # <<>> THEN <<MaxByArea(filt.out)>> ELSE <<>>)

predict_detected(c, button_9, history, roi, det) ==
    predict_filtered(c, button_9, roi, det.raw,
                     apply_temporal_filtering(history, det.out))

predict_roi(c, patterns, history, frame, button_9, order, roi) ==
    predict_detected(c, button_9, history, roi,
                     detect_with_pxd_patterns(ViewOf(frame, roi, c.showBoundingBox),
                                              patterns, order))

\* predict(frame, button_5, button_7, button_9) after get_fresh_settings and
\* check_pxd_control: c is the cached settings, patterns the pattern list
predict(c, patterns, history, frame, button_7, button_9, order) ==
    predict_roi(c, patterns, history, frame, button_9, order, RoiOf(c, button_7))

\* process() from the call of predict() to the two words of the vector
Encoded(p) == [p |-> p, wx |-> ScaledInt(p.rx), wy |-> ScaledInt(p.ry)]

\* a cycle that leaves the vector at zero while button_5 is released
process_vector_gated(c, patterns, history, frame, button_5, button_7, button_9, order) ==
    IF button_5 > 0
    THEN Encoded(predict(c, patterns, history, frame, button_7, button_9, order))
    ELSE Encoded([predict(c, patterns, history, frame, button_7, button_9, order)
                     EXCEPT !.rx = 0, !.ry = 0])

\* predict(frame, button_5, button_7, button_9) and the conversions of
\* process(): button_5 is passed on and never read
process_vector(c, patterns, history, frame, button_5, button_7, button_9, order) ==
    Encoded(predict(c, patterns, history, frame, button_7, button_9, order))

----------------------------------------------------------------------------
(* Bounds and the remaining inputs *)

\* bounds of the model
MaxCycles == 2

\* gtuner.get_actual readings: released or fully pressed
ButtonValues == {0, 100}

PxdNames == {"a.pxd", "b.pxd"}

ControlStates == {"absent", "malformed", NoFile} \cup PxdNames

\* the buffer the host hands in may already hold bytes
InitialBuffer == <<170, 85>>

----------------------------------------------------------------------------
(* State *)

VARIABLES
    gcvdata,            \* the output buffer of process()
    cycles,             \* process() invocations so far
    outcome,            \* how the last invocation ended: "none", "returned", "raised"
    cached,             \* the cached_* settings fields
    last_file_mtime,    \* self.last_file_mtime
    settings_checked,   \* self.last_settings_check is no longer 0
    settings_module,    \* the namespace of the imported settings module
    settings_file,      \* settings.py on disk
    pxd_patterns,       \* self.pxd_patterns
    active_pxd_file,    \* self.active_pxd_file
    pxd_checked,        \* self.last_pxd_check is no longer 0
    pxd_control,        \* pxd_control.json on disk
    pxd_loadable,       \* the pattern files that exist and parse
    detection_history,  \* self.detection_history
    obs,                \* what the last cycle was given and computed
    edits,              \* changes made on disk so far
    consolidation,      \* a call of cluster_similar_enemies on its own
    lock_call,          \* a run of the lock engine and the override on its own
    detect_call,        \* a call of detect_all_pixels on its own
    roi_call,           \* the ROI computation of predict() on its own
    cycle_call          \* predict() and the encoding of its vector on their own

vars ==
    <<gcvdata, cycles, outcome, cached, last_file_mtime, settings_checked,
      settings_module, settings_file, pxd_patterns, active_pxd_file,
      pxd_checked, pxd_control, pxd_loadable, detection_history, obs, edits,
      consolidation, lock_call, detect_call,
                   roi_call, cycle_call>>

\* the calls made outside process()
callVars == <<consolidation, lock_call, detect_call,
                   roi_call, cycle_call>>

coreVars ==
    <<gcvdata, cycles, outcome, cached, last_file_mtime, settings_checked,
      settings_module, pxd_patterns, active_pxd_file, pxd_checked,
      detection_history, obs, consolidation, lock_call, detect_call,
                   roi_call, cycle_call>>

NoObs == [p |-> <<>>, wx |-> <<>>, wy |-> <<>>, was |-> <<>>, button_id |-> <<>>]

NoLockCall == [c |-> InitCached, button_9 |-> 0, center |-> <<960, 540>>,
               applied |-> FALSE, out |-> <<>>]

NoDetectCall == [image |-> 0, pattern |-> <<>>, order |-> <<>>,
                 applied |-> FALSE, out |-> <<>>]

NoRoiCall == [c |-> InitCached, button_7 |-> 0, applied |-> FALSE, out |-> <<>>]

NoCycleCall == [c |-> InitCached, patterns |-> <<>>, history |-> <<>>, frame |-> 1,
                button_5 |-> 0, button_7 |-> 0, button_9 |-> 0, order |-> <<>>,
                applied |-> FALSE, out |-> <<>>]

NoCall == [dets |-> <<>>, visit |-> <<>>, applied |-> FALSE,
           clusters |-> <<>>, kept |-> <<>>, kept_visited |-> <<>>]

\* the core as __init__ leaves it
CoreInit ==
    /\ gcvdata = InitialBuffer
    /\ cycles = 0
    /\ outcome = "none"
    /\ cached = InitCached
    /\ last_file_mtime = 0
    /\ settings_checked = FALSE
    /\ settings_module = NoModule
    /\ pxd_patterns = <<>>
    /\ active_pxd_file = NoFile
    /\ pxd_checked = FALSE
    /\ detection_history = <<>>
    /\ obs = NoObs
    /\ edits = 0

\* the files the core finds when it starts: settings.py in one of its
\* versions, unparsable or missing; the control file naming a pattern file
\* that loads ("a.pxd"), one that does not ("b.pxd"), or absent
StartSettings ==
    {[state |-> "ok", mtime |-> 1, content |-> SettingsFiles[i]] :
        i \in 1..Len(SettingsFiles)}
    \cup {[state |-> st, mtime |-> 1, content |-> SettingsFiles[1]] :
            st \in {"syntax", "missing"}}

StartControls == {"a.pxd", "b.pxd", "absent"}

DiskInit ==
    /\ settings_file \in StartSettings
    /\ pxd_control \in StartControls
    /\ pxd_loadable = {"a.pxd"}

PipelineInit ==
    /\ CoreInit
    /\ settings_file = [state |-> "ok", mtime |-> 1, content |-> SettingsFiles[1]]
    /\ pxd_control = "a.pxd"
    /\ pxd_loadable = {"a.pxd"}

Init ==
    /\ CoreInit
    /\ DiskInit
    /\ consolidation = NoCall
    /\ lock_call = NoLockCall
    /\ detect_call = NoDetectCall
    /\ roi_call = NoRoiCall
    /\ cycle_call = NoCycleCall

----------------------------------------------------------------------------
(* process(frame, gcvdata) *)

\* One invocation.  The two poll timers are the host's clock: a poll is due
\* on the first call (the timers start at 0) and whenever the interval has
\* passed since.  predict() runs first; each extend() of the buffer is kept
\* when a later conversion raises.
Process(f, button_5, button_7, button_9, settings_due, pxd_due) ==
    /\ cycles < MaxCycles
    /\ \E s \in {get_fresh_settings(
                    [cached |-> cached, last_file_mtime |-> last_file_mtime,
                     module |-> settings_module],
                    settings_file, settings_due \/ ~settings_checked)} :
       \E px \in {check_pxd_control(
                    [pxd_patterns |-> pxd_patterns, active_pxd_file |-> active_pxd_file],
                    pxd_control, pxd_loadable, pxd_due \/ ~pxd_checked)} :
       \E order \in Perms(NumLabels(
                    ViewOf(f, RoiOf(s.cached, button_7), s.cached.showBoundingBox),
                    px.pxd_patterns)) :
       \E p \in {predict(s.cached, px.pxd_patterns, detection_history,
                         f, button_7, button_9, order)} :
       \E wx \in {ScaledInt(p.rx)}, wy \in {ScaledInt(p.ry)} :
       \E aim \in {get_aim_button_id(s.module, settings_file)} :
       \E seen \in {[p |-> <<p>>, wx |-> <<wx>>, wy |-> <<wy>>,
                      was |-> <<[pxd_patterns |-> pxd_patterns,
                                 active_pxd_file |-> active_pxd_file]>>]} :
          /\ cached' = s.cached
          /\ last_file_mtime' = s.last_file_mtime
          /\ settings_checked' = TRUE
          /\ pxd_patterns' = px.pxd_patterns
          /\ active_pxd_file' = px.active_pxd_file
          /\ pxd_checked' = TRUE
          /\ detection_history' = p.history
          /\ cycles' = cycles + 1
          /\ IF ~Fits32(wx)
             THEN /\ gcvdata' = gcvdata
                  /\ settings_module' = s.module
                  /\ outcome' = "raised"
                  /\ obs' = seen @@ [button_id |-> <<>>]
             ELSE IF ~Fits32(wy)
             THEN /\ gcvdata' = gcvdata \o to_bytes4(wx)
                  /\ settings_module' = s.module
                  /\ outcome' = "raised"
                  /\ obs' = seen @@ [button_id |-> <<>>]
             ELSE /\ gcvdata' = gcvdata \o to_bytes4(wx) \o to_bytes4(wy)
                                    \o to_bytes2(aim.id)
                  /\ settings_module' = aim.module
                  /\ outcome' = "returned"
                  /\ obs' = seen @@ [button_id |-> <<aim.id>>]
    /\ UNCHANGED <<settings_file, pxd_control, pxd_loadable, edits, callVars>>

----------------------------------------------------------------------------
(* The collaborators: the settings editor and the pattern selector on disk *)

MaxEdits == 1

WriteSettings(i) ==
    /\ edits < MaxEdits
    /\ settings_file' = [state |-> "ok", mtime |-> settings_file.mtime + 1,
                         content |-> SettingsFiles[i]]
    /\ edits' = edits + 1
    /\ UNCHANGED <<coreVars, pxd_control, pxd_loadable>>

\* a save that leaves the file unparsable
CorruptSettings ==
    /\ edits < MaxEdits
    /\ settings_file' = [settings_file EXCEPT !.state = "syntax", !.mtime = @ + 1]
    /\ edits' = edits + 1
    /\ UNCHANGED <<coreVars, pxd_control, pxd_loadable>>

RemoveSettings ==
    /\ edits < MaxEdits
    /\ settings_file' = [settings_file EXCEPT !.state = "missing"]
    /\ edits' = edits + 1
    /\ UNCHANGED <<coreVars, pxd_control, pxd_loadable>>

WriteControl(c) ==
    /\ edits < MaxEdits
    /\ c # pxd_control
    /\ pxd_control' = c
    /\ edits' = edits + 1
    /\ UNCHANGED <<coreVars, settings_file, pxd_loadable>>

\* a pattern file appears, disappears or changes between valid and invalid
TogglePxdFile(n) ==
    /\ edits < MaxEdits
    /\ pxd_loadable' = IF n \in pxd_loadable THEN pxd_loadable \ {n}
                       ELSE pxd_loadable \cup {n}
    /\ edits' = edits + 1
    /\ UNCHANGED <<coreVars, settings_file, pxd_control>>

\* the host calls process() cycle after cycle; with nothing changing on
\* disk the two polls find the same files whenever they run
Next ==
    \E f \in FrameIds, b7, b9 \in ButtonValues : Process(f, 0, b7, b9, TRUE, TRUE)

Spec == Init /\ [][Next]_vars

\* the same core with the files changing under it: one scene, the buttons
\* released, the polls due or not as the host's clock has it
DiskFrames == {2}

NextDisk ==
    \/ \E f \in DiskFrames, sd, pd \in BOOLEAN : Process(f, 0, 0, 0, sd, pd)
    \/ \E i \in 1..Len(SettingsFiles) : WriteSettings(i)
    \/ CorruptSettings
    \/ RemoveSettings
    \/ \E c \in ControlStates : WriteControl(c)
    \/ \E n \in PxdNames : TogglePxdFile(n)

\* here the second pattern file may be a valid one from the start
InitDisk ==
    /\ CoreInit
    /\ settings_file \in StartSettings
    /\ pxd_control \in StartControls
    /\ pxd_loadable \in {{"a.pxd"}, PxdNames}
    /\ consolidation = NoCall
    /\ lock_call = NoLockCall
    /\ detect_call = NoDetectCall
    /\ roi_call = NoRoiCall
    /\ cycle_call = NoCycleCall

SpecDisk == InitDisk /\ [][NextDisk]_vars

----------------------------------------------------------------------------
(* The lock engine and the manual override on their own: the part of       *)
(* predict() that follows the choice of the target, for any target centre, *)
(* speeds, override settings and secondary trigger                         *)

\* target centres around the screen centre: on it, 1 and 2 pixels off on
\* either axis, and far off
LockDeltasX == {-50, -2, -1, 0, 1, 2, 50}
LockDeltasY == {-38, -1, 0, 1, 2}

\* the speeds settings.py can hold: the editor's range and hand-written ones
LockSpeeds == {-9, 0, 1, 9, 40000}

OverridePercentages == {0, 25, 50, 100}

\* a detection standing for the selected target
LockTarget == MkDet(100, 100, 8, 8, 64)

LockInit ==
    /\ PipelineInit
    /\ consolidation = NoCall
    /\ detect_call = NoDetectCall
    /\ roi_call = NoRoiCall
    /\ cycle_call = NoCycleCall
    /\ \E dx \in LockDeltasX, dy \in LockDeltasY, sx, sy \in LockSpeeds,
          ov \in BOOLEAN, pct \in OverridePercentages, b9 \in ButtonValues :
          lock_call = [NoLockCall EXCEPT
                          !.c = [InitCached EXCEPT !.speedX = sx, !.speedY = sy,
                                                   !.manualOveride = ov,
                                                   !.manualOverridePercentage = pct],
                          !.button_9 = b9,
                          !.center = <<960 + dx, 540 + dy>>]

\* predict() from "rx, ry = self.perfect_target_lock(...)" on
LockAndOverride ==
    /\ ~lock_call.applied
    /\ lock_call' =
          [lock_call EXCEPT
              !.applied = TRUE,
              !.out = predict_center(lock_call.c, lock_call.button_9,
                                     RoiOf(lock_call.c, 0), <<LockTarget>>,
                                     [out |-> <<LockTarget>>, history |-> <<>>],
                                     <<LockTarget>>, lock_call.center)]
    /\ UNCHANGED <<gcvdata, cycles, outcome, cached, last_file_mtime,
                   settings_checked, settings_module, settings_file, pxd_patterns,
                   active_pxd_file, pxd_checked, pxd_control, pxd_loadable,
                   detection_history, obs, edits, consolidation, detect_call,
                   roi_call, cycle_call>>

LockNext == LockAndOverride

SpecLock == LockInit /\ [][LockNext]_vars

----------------------------------------------------------------------------
(* Claims about the lock engine and the override (under SpecLock) *)

Sign(n) == IF n > 0 THEN 1 ELSE IF n < 0 THEN -1 ELSE 0

LockDeltaX == lock_call.center[1] - 960
LockDeltaY == lock_call.center[2] - 540

\* the target centre of the call is at distance >= 2 from (960, 540)
LockFar == LockDeltaX * LockDeltaX + LockDeltaY * LockDeltaY >= 4

\* C11 as stated: at distance >= 2, for every speed settings.py can hold,
\* each component of the lock has the sign of its delta.
C11_SignOfDeltaAnySpeed ==
    (lock_call.applied /\ LockFar) =>
        /\ Sign(lock_call.out.lock[1]) = Sign(LockDeltaX)
        /\ Sign(lock_call.out.lock[2]) = Sign(LockDeltaY)

\* C11 (amended): at distance >= 2 and for speeds that are not negative
\* (zero included), each component of the lock has the sign of its delta and
\* is zero exactly where the delta is zero; with a negative speed the
\* component has the opposite sign once |delta * 0.02 * speed| >= 0.5.
C11_SignOfDeltaNonNegativeSpeed ==
    (lock_call.applied /\ LockFar) =>
        /\ lock_call.c.speedX >= 0 =>
              Sign(lock_call.out.lock[1]) = Sign(LockDeltaX)
        /\ lock_call.c.speedY >= 0 =>
              Sign(lock_call.out.lock[2]) = Sign(LockDeltaY)
        /\ (lock_call.c.speedX < 0 /\ Abs(LockDeltaX * lock_call.c.speedX) >= 25) =>
              Sign(lock_call.out.lock[1]) = -Sign(LockDeltaX)
        /\ (lock_call.c.speedY < 0 /\ Abs(LockDeltaY * lock_call.c.speedY) >= 25) =>
              Sign(lock_call.out.lock[2]) = -Sign(LockDeltaY)

\* speed 0 on x with the target two pixels to the left and on the centre
\* row: the floor gives -0.5 on x, y stays 0
C11_Witness ==
    /\ lock_call.applied
    /\ lock_call.center = <<958, 540>>
    /\ lock_call.c.speedX = 0
    /\ lock_call.out.lock = <<-MinMove, 0>>

\* C13: at distance >= 2, on each axis where |delta * 0.02 * speed| >= 0.5
\* the lock is delta * 0.02 * speed of that axis's own speed, however large
\* (delta * speed * 100 in units of 1/MoveDen).
C13_MoveIsDeltaTimesOwnSpeed ==
    (lock_call.applied /\ LockFar) =>
        /\ Abs(LockDeltaX * lock_call.c.speedX) >= 25 =>
              lock_call.out.lock[1] = LockDeltaX * lock_call.c.speedX * (MoveDen \div 50)
        /\ Abs(LockDeltaY * lock_call.c.speedY) >= 25 =>
              lock_call.out.lock[2] = LockDeltaY * lock_call.c.speedY * (MoveDen \div 50)

\* target (1010, 540) with speeds (9, 9): move_x = 9, move_y = 0; and the
\* same target with speedX = 40000 gives 40000, with no cap
C13_Witness ==
    /\ lock_call.applied
    /\ lock_call.center = <<1010, 540>>
    /\ \/ /\ lock_call.c.speedX = 9 /\ lock_call.c.speedY = 9
          /\ lock_call.out.lock = <<9 * MoveDen, 0>>
       \/ /\ lock_call.c.speedX = 40000
          /\ lock_call.out.lock[1] = 40000 * MoveDen

\* C14: with a selected target the emitted vector is the lock vector times
\* (100 - pct) / 100 on both axes exactly when manualOveride is set and
\* button_9 is active, and the lock vector itself otherwise (a lock value
\* is 100 * k units of 1/MoveDen, its scaled value k * (100 - pct)).
C14_OverrideIffEnabledAndTrigger ==
    lock_call.applied =>
        LET o == lock_call.out
            pct == lock_call.c.manualOverridePercentage
        IN IF lock_call.c.manualOveride /\ lock_call.button_9 > 0
           THEN /\ o.lock[1] % 100 = 0 /\ o.lock[2] % 100 = 0
                /\ o.rx = (o.lock[1] \div 100) * (100 - pct)
                /\ o.ry = (o.lock[2] \div 100) * (100 - pct)
           ELSE /\ o.rx = o.lock[1]
                /\ o.ry = o.lock[2]

\* lock (9, -0.5) with the override at 25 percent and the trigger held:
\* (6.75, -0.375)
C14_Witness ==
    /\ lock_call.applied
    /\ lock_call.c.manualOveride /\ lock_call.button_9 > 0
    /\ lock_call.c.manualOverridePercentage = 25
    /\ lock_call.out.lock = <<9 * MoveDen, -MinMove>>
    /\ lock_call.out.rx = 33750 /\ lock_call.out.ry = -1875

----------------------------------------------------------------------------
(* Claims about process() *)

\* the last n bytes of the buffer
LastBytes(n) == SubSeq(gcvdata, Len(gcvdata) - n + 1, Len(gcvdata))

\* the last cycle computed its moves
Computed == obs.p # <<>>

\* the fields of the payload the last cycle wrote, as the device reads them
PayloadX == from_bytes4(SubSeq(LastBytes(10), 1, 4))
PayloadY == from_bytes4(SubSeq(LastBytes(10), 5, 8))
PayloadButton == from_bytes2(SubSeq(LastBytes(10), 9, 10))

\* C1 as stated: after n cycles the buffer is its initial content followed
\* by exactly 10 * n bytes.
C1_TenBytesPerCycle ==
    /\ Len(gcvdata) = Len(InitialBuffer) + 10 * cycles
    /\ SubSeq(gcvdata, 1, Len(InitialBuffer)) = InitialBuffer

\* C2 as stated: no cycle ends without its payload having been appended.
C2_EveryCycleEmits == cycles > 0 => outcome = "returned"

\* the nearest word of the signed 32-bit range
Clamp32(w) ==
    IF w[1] > 32767 THEN <<32767, 65535>>
    ELSE IF w[1] < -32768 THEN <<-32768, 0>>
    ELSE w

\* C3 as stated: a move whose scaled value lies outside the signed 32-bit
\* range is written as the nearest representable value and the cycle emits
\* its full payload.
C3_OverflowIsClamped ==
    (Computed /\ (~Fits32(obs.wx[1]) \/ ~Fits32(obs.wy[1]))) =>
        /\ outcome = "returned"
        /\ PayloadX = Clamp32(obs.wx[1])
        /\ PayloadY = Clamp32(obs.wy[1])

\* word / 65536 differs from n / MoveDen by less than 1 / 65536
Within1Over65536(word, n) ==
    LET a == n \div MoveDen
        b == n % MoveDen
    IN /\ Abs(word[1] - a) <= 1
       /\ Abs((word[1] - a) * (65536 * MoveDen) + word[2] * MoveDen - b * 65536)
             < MoveDen

\* C4: the payload of a cycle that returned decodes (two big-endian signed
\* 32-bit words over 65536, one big-endian unsigned 16-bit value) to moves
\* within 1/65536 of those the cycle computed, negative or positive, and to
\* exactly the button id the cycle resolved.
C4_PayloadDecodes ==
    outcome = "returned" =>
        /\ Within1Over65536(PayloadX, obs.p[1].rx)
        /\ Within1Over65536(PayloadY, obs.p[1].ry)
        /\ <<PayloadButton>> = obs.button_id

\* a payload holding a negative move and a positive one, neither a whole
\* multiple of 1/65536
C4_Witness ==
    /\ outcome = "returned"
    /\ obs.p[1].rx > 0 /\ ((obs.p[1].rx % MoveDen) * 65536) % MoveDen # 0
    /\ obs.p[1].ry < 0 /\ ((obs.p[1].ry % MoveDen) * 65536) % MoveDen # 0
    /\ PayloadY[1] < 0

\* the x field of the last cycle was written: the cycle returned, or it
\* raised on the y conversion after extending the buffer by the x field
XWritten == Computed /\ Fits32(obs.wx[1])

WrittenX == IF outcome = "returned" THEN PayloadX ELSE from_bytes4(LastBytes(4))

\* C5 as stated: the stored integers are round(move * 65536).
C5_StoredIsRounded ==
    outcome = "returned" =>
        /\ PayloadX = RoundedInt(obs.p[1].rx)
        /\ PayloadY = RoundedInt(obs.p[1].ry)

\* word is n / MoveDen * 65536 with the fraction dropped, toward zero:
\* for n >= 0, word <= n * 65536 / MoveDen < word + 1, mirrored for n < 0
CutTowardZero(word, n) ==
    LET m == Abs(n)
        w == IF n >= 0 THEN word ELSE NegWord(word)
        d == (m % MoveDen) * 65536 - w[2] * MoveDen
    IN /\ w[1] = m \div MoveDen
       /\ 0 <= w[2] /\ w[2] <= 65535
       /\ 0 <= d /\ d < MoveDen

\* C5 (amended): every move field written holds move * 65536 cut toward
\* zero (the integer part of the product, for negative moves too), not the
\* nearest integer.
C5_StoredIsCutTowardZero ==
    /\ XWritten => CutTowardZero(WrittenX, obs.p[1].rx)
    /\ outcome = "returned" => CutTowardZero(PayloadY, obs.p[1].ry)

\* a payload whose negative y move has a fraction of a 65536th above one
\* half: rounding and cutting give different integers
C5_Witness ==
    /\ outcome = "returned"
    /\ obs.p[1].ry < 0
    /\ PayloadY # RoundedInt(obs.p[1].ry)
    /\ PayloadY = NegWord(TruncMagnitude(-obs.p[1].ry))

\* the squared distance of the last cycle's target centre from (960, 540)
CenterDist2FromOrigin ==
    (obs.p[1].center[1] - 960) * (obs.p[1].center[1] - 960)
    + (obs.p[1].center[2] - 540) * (obs.p[1].center[2] - 540)

\* C12: whenever the target centre, aim offset included, is less than 2
\* pixels from (960, 540), the lock result is (0, 0) whatever the speeds,
\* the cycle returns and its payload carries a zero vector.
C12_LockedTargetGivesZero ==
    (Computed /\ obs.p[1].best_target # <<>> /\ CenterDist2FromOrigin < 4) =>
        /\ obs.p[1].lock = <<0, 0>>
        /\ obs.p[1].rx = 0 /\ obs.p[1].ry = 0
        /\ outcome = "returned"
        /\ PayloadX = <<0, 0>> /\ PayloadY = <<0, 0>>

\* a target centred on (961, 541), one pixel off on both axes, under
\* speedX = 40000
C12_Witness ==
    /\ Computed
    /\ obs.p[1].best_target # <<>>
    /\ obs.p[1].center = <<961, 541>>
    /\ cached.speedX = 40000
    /\ SubSeq(LastBytes(10), 1, 8) = <<0, 0, 0, 0, 0, 0, 0, 0>>

\* C15: whenever the consolidated set of a cycle is empty, no target is
\* selected, the lock is (0, 0), the cycle returns and both vector fields of
\* its payload are zero, whatever the speeds, offsets and override settings.
C15_NoDetectionGivesZero ==
    (Computed /\ obs.p[1].all_targets = <<>>) =>
        /\ obs.p[1].best_target = <<>>
        /\ obs.p[1].lock = <<0, 0>>
        /\ obs.p[1].rx = 0 /\ obs.p[1].ry = 0
        /\ outcome = "returned"
        /\ PayloadX = <<0, 0>> /\ PayloadY = <<0, 0>>

\* a cycle with a pattern loaded that finds nothing, under speedY = 40000
\* and the aim offsets (-3, 2)
C15_Witness ==
    /\ Computed
    /\ pxd_patterns # <<>>
    /\ obs.p[1].all_targets = <<>>
    /\ cached.speedY = 40000 /\ cached.aimOffsetX = -3 /\ cached.aimOffsetY = 2
    /\ SubSeq(LastBytes(10), 1, 8) = <<0, 0, 0, 0, 0, 0, 0, 0>>

\* the id the claim gives the name configured in settings.py as it is on
\* disk: 7 when it cannot be read or does not set the name
ConfiguredId(file) ==
    IF file.state # "ok" \/ file.content["aimActivationButton"] = <<>> THEN 7
    ELSE LET name == file.content["aimActivationButton"][1]
         IN CASE name \in {"BUTTON_5", "L1"} -> 5
              [] name \in {"BUTTON_6", "L2"} -> 6
              [] name \in {"BUTTON_7", "R1"} -> 7
              [] name \in {"BUTTON_8", "R2"} -> 8
              [] OTHER -> 7

\* C6 as stated: the id in bytes 8-9 is the one of the configured name, 7
\* for any other name, for a missing setting and for settings that cannot
\* be read.
C6_ButtonIdOfConfiguredName ==
    [][(cycles' = cycles + 1 /\ outcome' = "returned") =>
          PayloadButton' = ConfiguredId(settings_file)]_vars

\* the size bounds of the loaded pattern hold for a detection
WithinBounds(d, size) ==
    /\ size.width[1] <= d.width /\ d.width <= size.width[2]
    /\ size.height[1] <= d.height /\ d.height <= size.height[2]

AllWithinBounds(dets, size) == \A k \in 1..Len(dets) : WithinBounds(dets[k], size)

\* C7: every detection the detector returned in the last cycle, every
\* consolidated one, the selected target and every detection in the history
\* ring has its width and height within the bounds of the pattern.
C7_DetectionsWithinSizeBounds ==
    LET size == PatternOf("a.pxd").size IN
    /\ Computed =>
          /\ AllWithinBounds(obs.p[1].raw, size)
          /\ AllWithinBounds(obs.p[1].all_targets, size)
          /\ AllWithinBounds(obs.p[1].best_target, size)
    /\ \A k \in 1..Len(detection_history) :
          AllWithinBounds(detection_history[k], size)

\* the frame with a 13 x 5 and a 4 x 6 blob beside two blobs of admitted
\* sizes: two raw detections, one consolidated, selected and in the ring
C7_Witness ==
    /\ Computed
    /\ Len(obs.p[1].raw) = 2
    /\ Len(obs.p[1].all_targets) = 1
    /\ obs.p[1].best_target # <<>>
    /\ Len(detection_history) = 2
    /\ detection_history[2] = obs.p[1].all_targets

----------------------------------------------------------------------------
(* The consolidator on its own: cluster_similar_enemies over any sequence  *)
(* of detections                                                           *)

MaxDets == 3

\* detections as the detector builds them; the centres lie 6, 8, 9, 10, 12
\* and 15 pixels apart
SampleBoxes == {<<97, 97, 6, 6>>, <<103, 97, 6, 6>>, <<103, 105, 6, 6>>, <<112, 97, 7, 6>>}
SampleAreas == {25, 36}
SampleDets == {MkDet(b[1], b[2], b[3], b[4], a) : b \in SampleBoxes, a \in SampleAreas}

ClusterInit ==
    /\ PipelineInit
    /\ \E dets \in SeqsUpTo(SampleDets, MaxDets) :
       \E visit \in Perms(Len(dets)) :
          consolidation = [NoCall EXCEPT !.dets = dets, !.visit = visit]
    /\ lock_call = NoLockCall
    /\ detect_call = NoDetectCall
    /\ roi_call = NoRoiCall
    /\ cycle_call = NoCycleCall

\* the call: the clusters formed and the detections kept, and what would be
\* kept were the absorption loop to meet the candidates in the order `visit`
Consolidate ==
    /\ ~consolidation.applied
    /\ consolidation' =
          [consolidation EXCEPT
              !.applied = TRUE,
              !.clusters = ClustersVisited(consolidation.dets,
                                           IdentityVisit(Len(consolidation.dets))),
              !.kept = cluster_similar_enemies(consolidation.dets),
              !.kept_visited = ClusterVisited(consolidation.dets, consolidation.visit)]
    /\ UNCHANGED <<gcvdata, cycles, outcome, cached, last_file_mtime,
                   settings_checked, settings_module, settings_file, pxd_patterns,
                   active_pxd_file, pxd_checked, pxd_control, pxd_loadable,
                   detection_history, obs, edits, lock_call, detect_call,
                   roi_call, cycle_call>>

ClusterNext == Consolidate

SpecCluster == ClusterInit /\ [][ClusterNext]_vars

----------------------------------------------------------------------------
(* Claims about the consolidator (checked under SpecCluster) *)

RECURSIVE SumLen(_, _)
SumLen(ss, k) == IF k > Len(ss) THEN 0 ELSE Len(ss[k]) + SumLen(ss, k + 1)

AreasOf(s) == [k \in 1..Len(s) |-> s[k].area]

\* the squared distance between the centre fields of two detections
CenterDist2(a, b) ==
    (a.center[1] - b.center[1]) * (a.center[1] - b.center[1])
    + (a.center[2] - b.center[2]) * (a.center[2] - b.center[2])

\* C8: consolidation returns no more detections than it was given, exactly
\* one per cluster formed (the clusters holding every input detection once,
\* each member within 10 pixels of its seed), and each returned detection is
\* the first member of its cluster, in seed-then-input order, whose area is
\* the cluster's maximum.
C8_KeptIsFirstMaxOfCluster ==
    consolidation.applied =>
        LET dets == consolidation.dets
            cl == consolidation.clusters
            kept == consolidation.kept
        IN /\ Len(kept) <= Len(dets)
           /\ Len(kept) = Len(cl)
           /\ SumLen(cl, 1) = Len(dets)
           /\ \A k \in 1..Len(cl) :
                 /\ \A m \in 1..Len(cl[k]) :
                       /\ cl[k][m] \in Range(dets)
                       /\ CenterDist2(cl[k][m], cl[k][1]) < 100
                       /\ cl[k][m].area <= kept[k].area
                 /\ \E i \in 1..Len(cl[k]) :
                       /\ cl[k][i] = kept[k]
                       /\ \A j \in 1..(i - 1) : cl[k][j].area < kept[k].area

\* a cluster whose maximum area is shared by its seed and a different
\* absorbed member, the seed being the one kept
C8_Witness ==
    /\ consolidation.applied
    /\ \E k \in 1..Len(consolidation.clusters) :
          LET c == consolidation.clusters[k] IN
          /\ Len(c) >= 2
          /\ \E j \in 2..Len(c) : c[j].area = c[1].area /\ c[j] # c[1]
          /\ \A j \in 1..Len(c) : c[j].area <= c[1].area
          /\ consolidation.kept[k] = c[1]

\* C9 as stated: whatever order the absorption loop meets the candidates
\* in, the multiset of kept detections is the one the code returns.
C9_AnyVisitOrderSameKept ==
    consolidation.applied =>
        BagOf(consolidation.kept_visited) = BagOf(consolidation.kept)

\* no cluster has two different members that share its maximum area
NoTiedMaximum(cl) ==
    \A k \in 1..Len(cl) : \A i, j \in 1..Len(cl[k]) :
        (/\ cl[k][i] # cl[k][j]
         /\ cl[k][i].area = cl[k][j].area) =>
            \E m \in 1..Len(cl[k]) : cl[k][m].area > cl[k][i].area

\* C9 (amended): whatever order the absorption loop meets the candidates
\* in, the number of clusters and the multiset of the kept detections' areas
\* are those of the code's own order, and the multiset of kept detections
\* is the same as well whenever no cluster has two different members sharing
\* its maximum area.
C9_VisitOrderKeepsAreas ==
    consolidation.applied =>
        /\ Len(consolidation.kept_visited) = Len(consolidation.kept)
        /\ BagOf(AreasOf(consolidation.kept_visited)) = BagOf(AreasOf(consolidation.kept))
        /\ NoTiedMaximum(consolidation.clusters) =>
              BagOf(consolidation.kept_visited) = BagOf(consolidation.kept)

\* a seed that absorbs two candidates of different areas, met in the
\* reverse of input order
C9_Witness ==
    /\ consolidation.applied
    /\ Len(consolidation.dets) = 3
    /\ consolidation.visit = <<3, 2, 1>>
    /\ Len(consolidation.clusters) = 1
    /\ NoTiedMaximum(consolidation.clusters)
    /\ consolidation.dets[2].area # consolidation.dets[3].area
    /\ consolidation.kept_visited = consolidation.kept

\* C10: two detections are consolidated to one exactly when their centres
\* are strictly less than 10 pixels apart, and both are returned, in input
\* order, otherwise (10 pixels apart exactly gives two).
C10_TwoDetectionsThreshold ==
    (consolidation.applied /\ Len(consolidation.dets) = 2) =>
        LET a == consolidation.dets[1]
            b == consolidation.dets[2]
        IN IF CenterDist2(a, b) < 100
           THEN Len(consolidation.kept) = 1
           ELSE consolidation.kept = consolidation.dets

\* centres exactly 10 pixels apart, (100, 100) and (106, 108), kept apart
C10_Witness ==
    /\ consolidation.applied
    /\ Len(consolidation.dets) = 2
    /\ consolidation.dets[1].center = <<100, 100>>
    /\ consolidation.dets[2].center = <<106, 108>>
    /\ Len(consolidation.kept) = 2

----------------------------------------------------------------------------
(* Claims about the pattern store and the settings snapshot, under SpecDisk *)

\* the pattern state the last cycle started from
Was == obs.was[1]

\* C16: whatever the polls found (a load, a replace, a clear, the control
\* file removed, a load that failed), the core holds at most one pattern,
\* the pattern it holds is the one of the file it names as active (a replace
\* leaves nothing of the pattern before), and a cycle that ran with no
\* pattern has an empty detection set.
C16_AtMostOnePattern ==
    /\ Len(pxd_patterns) <= 1
    /\ \A i \in 1..Len(pxd_patterns) :
          pxd_patterns[i] = PatternOf(active_pxd_file)
    /\ (Computed /\ pxd_patterns = <<>>) =>
          /\ obs.p[1].raw = <<>>
          /\ obs.p[1].all_targets = <<>>
          /\ obs.p[1].best_target = <<>>

\* a replace: the cycle started with the pattern of a.pxd and ended with
\* the pattern of b.pxd
C16_Witness ==
    /\ Computed
    /\ Was.pxd_patterns = <<PatternOf("a.pxd")>>
    /\ pxd_patterns = <<PatternOf("b.pxd")>>
    /\ obs.p[1].raw # <<>>

\* a clear: the cycle started with a pattern and ran with none
C16_WitnessCleared ==
    /\ Computed
    /\ Was.pxd_patterns # <<>>
    /\ pxd_patterns = <<>>

\* the w x h square with top-left pixel (x, y) lies inside the cropped ROI
SquareInRoi(x, y, w, h, roi) ==
    /\ Cropped(roi)
    /\ roi.X1 <= x /\ x + w <= roi.X2
    /\ roi.Y1 <= y /\ y + h <= roi.Y2

\* the centre of a detection in frame coordinates
FrameCenter(d, roi) == <<d.center[1] + roi.X1, d.center[2] + roi.Y1>>

\* the range and size bounds the active pattern's file declares cover a
\* solid w x h square of colour c
DeclaredCovers(c, w, h) ==
    /\ pxd_patterns # <<>>
    /\ InRange(c, PxdFileContent(pxd_patterns[1].source_file).color_lower_bgr,
                  PxdFileContent(pxd_patterns[1].source_file).color_upper_bgr)
    /\ PxdFileContent(pxd_patterns[1].source_file).size.width[1] <= w
    /\ w <= PxdFileContent(pxd_patterns[1].source_file).size.width[2]
    /\ PxdFileContent(pxd_patterns[1].source_file).size.height[1] <= h
    /\ h <= PxdFileContent(pxd_patterns[1].source_file).size.height[2]

\* C17: in the scene of SpecDisk (an 8x8 square of pure green with top-left
\* pixel (940,560), every other pixel outside the green range), a cycle
\* whose active pattern was supplied with a range and size bounds covering
\* that square, and whose ROI contains the square, yields exactly one
\* detection, of area 64 and frame-space centre (944,564), the square's.
C17_CoveredSquareIsTheOneDetection ==
    (/\ Computed
     /\ DeclaredCovers(Green, 8, 8)
     /\ SquareInRoi(940, 560, 8, 8, obs.p[1].roi)) =>
        /\ Len(obs.p[1].raw) = 1
        /\ obs.p[1].raw[1].area = 8 * 8
        /\ FrameCenter(obs.p[1].raw[1], obs.p[1].roi) = <<940 + 4, 560 + 4>>

\* a version of settings.py that defines every name get_fresh_settings
\* reads without a default
Complete(content) ==
    \A a \in {"boundingBoxColor", "showBoundingBox", "adaptiveBoundingBox",
              "manualOveride", "speedX", "speedY", "aimSmoothing"} :
        content[a] # <<>>

\* the values one complete version gives the pipeline, the documented
\* defaults standing in for the optional names it leaves out
SnapshotOf(content) ==
    [bbox_width |-> Get(content, "boundingBoxWidth", 720),
     bbox_height |-> Get(content, "boundingBoxHeight", 480),
     showBoundingBox |-> content["showBoundingBox"][1],
     adaptiveBoundingBox |-> content["adaptiveBoundingBox"][1],
     manualOveride |-> content["manualOveride"][1],
     speedX |-> content["speedX"][1],
     speedY |-> content["speedY"][1],
     aimOffsetX |-> Get(content, "aimOffsetX", 0),
     aimOffsetY |-> Get(content, "aimOffsetY", 0),
     manualOverridePercentage |-> Get(content, "manualOverridePercentage", 50)]

\* the snapshots the settings source ever offered: the built-in one and one
\* per complete version of the file
Snapshots ==
    {InitCached} \cup
    {SnapshotOf(SettingsFiles[i]) :
        i \in {j \in 1..Len(SettingsFiles) : Complete(SettingsFiles[j])}}

\* C18: the settings values a cycle uses (the cached fields predict() reads)
\* are, after any sequence of reloads, those of one single version of the
\* settings source: the built-in values or one complete version of the
\* file, never fields of one version next to fields of another.
C18_SettingsFromOneVersion ==
    cached \in Snapshots

\* the control file names a pattern file that is missing or does not parse
PatternFileBad == pxd_control \in PxdNames \ pxd_loadable

\* settings.py is missing, does not parse, or its reload stops part-way at
\* a name it does not define
SettingsFileBad ==
    \/ settings_file.state \in {"missing", "syntax"}
    \/ ~Complete(ReloadInto(settings_module, settings_file.content))

\* C19: a cycle that finds the selected pattern file missing or malformed
\* goes on with the pattern it held, and a cycle that finds the settings
\* file missing or malformed goes on with the settings values it held: the
\* last ones loaded successfully.
C19_FailedLoadKeepsLastGood ==
    [][(cycles' = cycles + 1) =>
          /\ PatternFileBad => pxd_patterns' = pxd_patterns
          /\ SettingsFileBad => cached' = cached]_vars

\* the pattern half of C19 alone
C19_FailedPatternLoadKeepsPattern ==
    [][(cycles' = cycles + 1 /\ PatternFileBad) =>
          pxd_patterns' = pxd_patterns]_vars

\* what does hold: no failed load ends a cycle early, and a settings file
\* that is missing or does not parse leaves every cached value as it was
C19_UnreadableSettingsKeepValues ==
    [][(cycles' = cycles + 1 /\ settings_file.state \in {"missing", "syntax"}) =>
          cached' = cached]_vars

----------------------------------------------------------------------------
(* detect_all_pixels on its own: every view of the model under patterns of  *)
(* several colour ranges and size bounds                                    *)

MkPattern(lower, upper, wmin, wmax, hmin, hmax) ==
    [color_lower_bgr |-> lower, color_upper_bgr |-> upper,
     size |-> [width |-> <<wmin, wmax>>, height |-> <<hmin, hmax>>]]

\* the patterns handed to the detector: the cached range with the cached
\* and with narrower size bounds, the range that ends one step inside each
\* corner colour, a single colour, the range around green.  No range holds
\* the black or the white of the background.
DetectPatterns ==
    {MkPattern(cached_pxd_low_color, cached_pxd_high_color, 5, 12, 5, 12),
     MkPattern(cached_pxd_low_color, cached_pxd_high_color, 3, 6, 6, 8),
     MkPattern(<<62, 0, 102>>, <<255, 45, 253>>, 5, 12, 5, 12),
     MkPattern(Inner, Inner, 1, 8, 1, 7),
     MkPattern(<<0, 200, 0>>, <<80, 255, 80>>, 4, 16, 4, 16)}

DetectInit ==
    /\ PipelineInit
    /\ consolidation = NoCall
    /\ lock_call = NoLockCall
    /\ roi_call = NoRoiCall
    /\ cycle_call = NoCycleCall
    /\ detect_call \in {[image |-> ViewAt(i), pattern |-> pt, order |-> <<>>,
                         applied |-> FALSE, out |-> <<>>] :
                            i \in 1..NumViews, pt \in DetectPatterns}

\* one call of detect_all_pixels(frame, pattern)
DetectPixels ==
    /\ ~detect_call.applied
    /\ \E order \in Perms(Len(LabelView(detect_call.image,
                                        detect_call.pattern.color_lower_bgr,
                                        detect_call.pattern.color_upper_bgr))) :
          detect_call' = [detect_call EXCEPT
                            !.applied = TRUE,
                            !.order = order,
                            !.out = detect_all_pixels(detect_call.image,
                                                      detect_call.pattern, order)]
    /\ UNCHANGED <<gcvdata, cycles, outcome, cached, last_file_mtime,
                   settings_checked, settings_module, settings_file, pxd_patterns,
                   active_pxd_file, pxd_checked, pxd_control, pxd_loadable,
                   detection_history, obs, edits, consolidation, lock_call,
                   roi_call, cycle_call>>

DetectNext == DetectPixels

SpecDetect == DetectInit /\ [][DetectNext]_vars

(* Claim C20, stated from the image itself: the components are found here  *)
(* by spreading the smallest raster index over touching pixels, not by the *)
(* labelling the detector uses.                                            *)

\* the pixels of the image whose three channels lie in [lower, upper]
Included(img, lower, upper) ==
    {p \in DOMAIN img :
        /\ lower[1] <= img[p][1] /\ img[p][1] <= upper[1]
        /\ lower[2] <= img[p][2] /\ img[p][2] <= upper[2]
        /\ lower[3] <= img[p][3] /\ img[p][3] <= upper[3]}

\* the included pixels touching p by a side or a corner, and p
Touching(p, mask) ==
    {<<p[1] + dx, p[2] + dy>> : dx \in -1..1, dy \in -1..1} \cap mask

RECURSIVE Spread(_, _)
\* every pixel takes the smallest mark among the pixels it touches, until
\* nothing changes: two pixels end with the same mark exactly when a chain
\* of touching included pixels joins them
Spread(mark, mask) ==
    LET next == [p \in mask |-> MinOf({mark[q] : q \in Touching(p, mask)})]
    IN IF next = mark THEN mark ELSE Spread(next, mask)

\* the 8-connected components of a set of pixels
ComponentsOf(mask) ==
    LET mark == Spread([p \in mask |-> p[2] * 2000 + p[1]], mask)
    IN {{p \in mask : mark[p] = m} : m \in {mark[q] : q \in mask}}

\* the detection the claim describes for a component
DetectionOf(comp) ==
    LET x == MinOf({p[1] : p \in comp})
        y == MinOf({p[2] : p \in comp})
        w == MaxOf({p[1] : p \in comp}) - MinOf({p[1] : p \in comp}) + 1
        h == MaxOf({p[2] : p \in comp}) - MinOf({p[2] : p \in comp}) + 1
    IN [coords |-> <<x, y, x + w, y + h>>, confidence |-> 90,
        width |-> w, height |-> h, area |-> Cardinality(comp),
        center |-> <<x + (w \div 2), y + (h \div 2)>>,
        pixel_count |-> Cardinality(comp)]

\* the detections the claim describes for an image and a pattern
ExpectedDetections(img, pattern) ==
    {d \in {DetectionOf(comp) :
              comp \in ComponentsOf(Included(img, pattern.color_lower_bgr,
                                             pattern.color_upper_bgr))} :
        /\ pattern.size.width[1] <= d.width /\ d.width <= pattern.size.width[2]
        /\ pattern.size.height[1] <= d.height /\ d.height <= pattern.size.height[2]}

\* out lists every member of expected exactly once and nothing else
ListsExactly(out, expected) ==
    /\ Len(out) = Cardinality(expected)
    /\ \A d \in expected : \E i \in 1..Len(out) : out[i] = d

\* C20: for every image and pattern, the detections detect_all_pixels
\* returns are, one for one, the 8-connected components of the pixels whose
\* channels lie in the inclusive range, kept when the width and the height
\* of their bounding box are within the size bounds; each has the rectangle
\* (x, y, x+w, y+h) of the bounding box, the pixel count as area, the centre
\* (x + w div 2, y + h div 2) and confidence 0.9 (90 hundredths).
C20_DetectionsAreTheComponents ==
    detect_call.applied =>
        ListsExactly(detect_call.out,
                     ExpectedDetections(ImageOf(detect_call.image),
                                        detect_call.pattern))

\* two 3x3 squares that touch by a corner come out as one detection of 18
\* pixels in a 6x6 box
C20_Witness ==
    /\ detect_call.applied
    /\ \E i \in 1..Len(detect_call.out) :
          /\ detect_call.out[i].area = 18
          /\ detect_call.out[i].width = 6
          /\ detect_call.out[i].height = 6

\* a component left out for its size, next to one that is kept
C20_WitnessFiltered ==
    /\ detect_call.applied
    /\ Len(detect_call.out) >= 1
    /\ Len(detect_call.order) > Len(detect_call.out)

----------------------------------------------------------------------------
(* The ROI of predict() on its own: widths and heights from the sliders'   *)
(* ranges (100..1500, 100..1000) and from hand edits beyond them           *)

RoiWidths == {-10, 0, 1, 100, 201, 720, 721, 1281, 1500, 1920, 2000, 3000}
RoiHeights == {-10, 0, 1, 100, 201, 480, 481, 721, 1000, 1080, 1500}

RoiInit ==
    /\ PipelineInit
    /\ consolidation = NoCall
    /\ lock_call = NoLockCall
    /\ detect_call = NoDetectCall
    /\ cycle_call = NoCycleCall
    /\ \E w \in RoiWidths, h \in RoiHeights, ad \in BOOLEAN, b7 \in ButtonValues :
          roi_call = [NoRoiCall EXCEPT
                         !.c = [InitCached EXCEPT !.bbox_width = w,
                                                  !.bbox_height = h,
                                                  !.adaptiveBoundingBox = ad],
                         !.button_7 = b7]

\* predict() from "screen_center_x, screen_center_y = 960, 540" to the ROI
ComputeRoi ==
    /\ ~roi_call.applied
    /\ roi_call' = [roi_call EXCEPT !.applied = TRUE,
                                    !.out = RoiOf(roi_call.c, roi_call.button_7)]
    /\ UNCHANGED <<gcvdata, cycles, outcome, cached, last_file_mtime,
                   settings_checked, settings_module, settings_file, pxd_patterns,
                   active_pxd_file, pxd_checked, pxd_control, pxd_loadable,
                   detection_history, obs, edits, consolidation, lock_call,
                   detect_call, cycle_call>>

RoiNext == ComputeRoi

SpecRoi == RoiInit /\ [][RoiNext]_vars

\* 1.5 times n, cut to an integer
OneAndAHalf(n) == IF n >= 0 THEN (n + n + n) \div 2 ELSE -((-(n + n + n)) \div 2)

\* the effective width and height of the call
EffectiveWidth ==
    IF roi_call.c.adaptiveBoundingBox /\ roi_call.button_7 > 0
    THEN OneAndAHalf(roi_call.c.bbox_width) ELSE roi_call.c.bbox_width

EffectiveHeight ==
    IF roi_call.c.adaptiveBoundingBox /\ roi_call.button_7 > 0
    THEN OneAndAHalf(roi_call.c.bbox_height) ELSE roi_call.c.bbox_height

\* the ROI is the one cropped, and the clip to the screen cut nothing off
RoiUsedUnclipped ==
    /\ roi_call.applied
    /\ Cropped(roi_call.out)
    /\ 960 - (EffectiveWidth \div 2) >= 0 /\ 960 + (EffectiveWidth \div 2) <= 1920
    /\ 540 - (EffectiveHeight \div 2) >= 0 /\ 540 + (EffectiveHeight \div 2) <= 1080

\* C21 as stated: an ROI used as the crop lies inside the screen with
\* x1 < x2 and y1 < y2 and, when not clipped, has exactly the effective
\* width and height.
C21_UnclippedRoiHasEffectiveSize ==
    /\ (roi_call.applied /\ Cropped(roi_call.out)) =>
          /\ 0 <= roi_call.out.X1 /\ roi_call.out.X1 < roi_call.out.X2
          /\ roi_call.out.X2 <= 1920
          /\ 0 <= roi_call.out.Y1 /\ roi_call.out.Y1 < roi_call.out.Y2
          /\ roi_call.out.Y2 <= 1080
    /\ RoiUsedUnclipped =>
          /\ roi_call.out.X2 - roi_call.out.X1 = EffectiveWidth
          /\ roi_call.out.Y2 - roi_call.out.Y1 = EffectiveHeight

\* C21 (amended): the ROI reaches half the effective width (height),
\* rounded down, to each side of (960,540) and is cut to the screen, the
\* effective dimensions being 1.5 times the configured ones exactly when
\* adaptive mode is on and button_7 is pressed; an ROI used as the crop lies
\* inside the screen with x1 < x2 and y1 < y2 and, when not clipped, is as
\* wide and high as the effective dimensions rounded down to even numbers.
C21_RoiReachesHalfEachSide ==
    roi_call.applied =>
        /\ roi_call.out.X1 = Max2(0, 960 - (EffectiveWidth \div 2))
        /\ roi_call.out.X2 = Min2(1920, 960 + (EffectiveWidth \div 2))
        /\ roi_call.out.Y1 = Max2(0, 540 - (EffectiveHeight \div 2))
        /\ roi_call.out.Y2 = Min2(1080, 540 + (EffectiveHeight \div 2))
        /\ Cropped(roi_call.out) =>
              /\ 0 <= roi_call.out.X1 /\ roi_call.out.X1 < roi_call.out.X2
              /\ roi_call.out.X2 <= 1920
              /\ 0 <= roi_call.out.Y1 /\ roi_call.out.Y1 < roi_call.out.Y2
              /\ roi_call.out.Y2 <= 1080
        /\ RoiUsedUnclipped =>
              /\ roi_call.out.X2 - roi_call.out.X1
                    = EffectiveWidth - (EffectiveWidth % 2)
              /\ roi_call.out.Y2 - roi_call.out.Y1
                    = EffectiveHeight - (EffectiveHeight % 2)

\* width 721 under the adaptive ROI: effective width 1081, ROI 1080 wide
C21_Witness ==
    /\ RoiUsedUnclipped
    /\ roi_call.c.adaptiveBoundingBox /\ roi_call.button_7 > 0
    /\ roi_call.c.bbox_width = 721
    /\ EffectiveWidth = 1081
    /\ roi_call.out.X2 - roi_call.out.X1 = 1080

----------------------------------------------------------------------------
(* Claims about the region and the target handed to the lock, under Spec *)

\* the selected target of the last cycle
Best == obs.p[1].best_target[1]

\* C22: a cycle whose clipped ROI has no width or no height detects over
\* the whole frame, ends with a payload, and takes its detections as
\* full-frame coordinates: the centre it locks on is the centre of the
\* selected detection's rectangle as detected, moved by the aim offset only.
C22_EmptyRoiUsesFrameCoordinates ==
    (Computed /\ ~Cropped(obs.p[1].roi)) =>
        /\ outcome = "returned"
        /\ obs.p[1].best_target # <<>> =>
              obs.p[1].center = <<CoordsCenter(Best.coords)[1] + cached.aimOffsetX,
                                  CoordsCenter(Best.coords)[2] + cached.aimOffsetY>>

\* what holds of such a cycle: it returns with a payload
C22_EmptyRoiCycleReturns ==
    (Computed /\ ~Cropped(obs.p[1].roi)) => outcome = "returned"

\* the origin of the region the last cycle cut out for detection: the ROI's
\* corner, or the frame's when the whole frame was used
CropOrigin ==
    IF Cropped(obs.p[1].roi) THEN <<obs.p[1].roi.X1, obs.p[1].roi.Y1>> ELSE <<0, 0>>

\* the selected target is the first of the consolidated detections whose
\* area is the largest
BestIsFirstMaximum ==
    \E i \in 1..Len(obs.p[1].all_targets) :
        /\ obs.p[1].all_targets[i] = Best
        /\ \A j \in 1..Len(obs.p[1].all_targets) :
              obs.p[1].all_targets[j].area <= Best.area
        /\ \A j \in 1..(i - 1) : obs.p[1].all_targets[j].area < Best.area

\* C23: in a cycle with a non-empty consolidated set the selected target is
\* the detection of maximum area, the first among equals, and the centre
\* handed to the lock is that detection's centre as detected plus the origin
\* of the region cropped for detection plus the aim offset; the recorded
\* detections are the consolidated ones, untouched.
C23_CenterIsLocalPlusCropOrigin ==
    (Computed /\ obs.p[1].all_targets # <<>>) =>
        /\ obs.p[1].best_target # <<>>
        /\ BestIsFirstMaximum
        /\ obs.p[1].center = <<Best.center[1] + CropOrigin[1] + cached.aimOffsetX,
                               Best.center[2] + CropOrigin[2] + cached.aimOffsetY>>
        /\ detection_history[Len(detection_history)] = obs.p[1].all_targets

\* the same with the ROI's corner added whether or not the ROI was cropped:
\* this is what the cycle computes
C23_CenterIsLocalPlusRoiCorner ==
    (Computed /\ obs.p[1].all_targets # <<>>) =>
        /\ obs.p[1].best_target # <<>>
        /\ BestIsFirstMaximum
        /\ obs.p[1].center = <<Best.center[1] + obs.p[1].roi.X1 + cached.aimOffsetX,
                               Best.center[2] + obs.p[1].roi.Y1 + cached.aimOffsetY>>
        /\ detection_history[Len(detection_history)] = obs.p[1].all_targets

----------------------------------------------------------------------------
(* The minimum-movement floor, under SpecLock *)

\* one axis of C24 as stated: a delta that is not zero gives a move of at
\* least 0.5 on the delta's side, a zero delta gives no move
FloorAxisAsStated(delta, move) ==
    /\ delta # 0 => (Abs(move) >= MinMove /\ Sign(move) = Sign(delta))
    /\ delta = 0 => move = 0

\* one axis of the amended C24; delta * speed * 100 is the proportional
\* move in units of 1/MoveDen
FloorAxis(delta, speed, move) ==
    /\ delta # 0 => Abs(move) >= MinMove
    /\ (delta # 0 /\ Abs(delta * speed * 100) < MinMove) =>
          move = Sign(delta) * MinMove
    /\ (delta # 0 /\ speed >= 0) => Sign(move) = Sign(delta)
    /\ delta = 0 => move = 0

\* C24 as stated: at distance >= 2, on each axis, |delta| > 0.5 gives
\* |move| >= 0.5 with the sign of delta, and delta = 0 gives move = 0.
C24_FloorKeepsSideAnySpeed ==
    (lock_call.applied /\ LockFar) =>
        /\ FloorAxisAsStated(LockDeltaX, lock_call.out.lock[1])
        /\ FloorAxisAsStated(LockDeltaY, lock_call.out.lock[2])

\* C24 (amended): at distance >= 2, on each axis, |delta| > 0.5 gives
\* |move| >= 0.5, a proportional move smaller than 0.5 being replaced by
\* exactly +0.5 or -0.5 on the side of delta; the move has the sign of delta
\* for every speed that is not negative; delta = 0 gives move = 0.
C24_FloorKeepsSideNonNegativeSpeed ==
    (lock_call.applied /\ LockFar) =>
        /\ FloorAxis(LockDeltaX, lock_call.c.speedX, lock_call.out.lock[1])
        /\ FloorAxis(LockDeltaY, lock_call.c.speedY, lock_call.out.lock[2])

\* two pixels left and one below the centre at speeds 1 and 9: the
\* proportional moves -0.04 and 0.18 become -0.5 and +0.5
C24_Witness ==
    /\ lock_call.applied
    /\ lock_call.center = <<958, 541>>
    /\ lock_call.c.speedX = 1 /\ lock_call.c.speedY = 9
    /\ lock_call.out.lock = <<-MinMove, MinMove>>

----------------------------------------------------------------------------
(* One cycle on its own: predict() and the conversions of process() on     *)
(* settings, pattern, history, frame and buttons drawn freely              *)

\* the cached settings a cycle can find: the built-in ones and what a first
\* load of each version of settings.py leaves
CallSettings ==
    {InitCached} \cup {UpdateCached(InitCached, SettingsFiles[i]) :
                          i \in 1..Len(SettingsFiles)}

\* the histories a cycle can find: none, one empty cycle, and a full ring
CallHistories ==
    {<<>>,
     << <<>> >>,
     << <<MkDet(366, 241, 8, 8, 64)>>, <<>>, <<MkDet(370, 241, 8, 8, 64)>>,
        <<MkDet(366, 241, 8, 8, 64)>>, <<>> >>}

CycleInit ==
    /\ PipelineInit
    /\ consolidation = NoCall
    /\ lock_call = NoLockCall
    /\ detect_call = NoDetectCall
    /\ roi_call = NoRoiCall
    /\ \E c \in CallSettings, h \in CallHistories, f \in FrameIds,
          pt \in {<<>>, <<PatternOf("a.pxd")>>}, b5, b7, b9 \in ButtonValues :
          cycle_call = [NoCycleCall EXCEPT
                           !.c = c, !.patterns = pt, !.history = h, !.frame = f,
                           !.button_5 = b5, !.button_7 = b7, !.button_9 = b9]

\* the cycle from predict() to the vector's two words
RunCycle ==
    /\ ~cycle_call.applied
    /\ \E order \in Perms(NumLabels(
                    ViewOf(cycle_call.frame, RoiOf(cycle_call.c, cycle_call.button_7),
                           cycle_call.c.showBoundingBox),
                    cycle_call.patterns)) :
          cycle_call' = [cycle_call EXCEPT
                            !.applied = TRUE,
                            !.order = order,
                            !.out = process_vector(cycle_call.c, cycle_call.patterns,
                                                   cycle_call.history, cycle_call.frame,
                                                   cycle_call.button_5, cycle_call.button_7,
                                                   cycle_call.button_9, order)]
    /\ UNCHANGED <<gcvdata, cycles, outcome, cached, last_file_mtime,
                   settings_checked, settings_module, settings_file, pxd_patterns,
                   active_pxd_file, pxd_checked, pxd_control, pxd_loadable,
                   detection_history, obs, edits, consolidation, lock_call,
                   detect_call, roi_call>>

CycleNext == RunCycle

SpecCycle == CycleInit /\ [][CycleNext]_vars

\* the last n entries of a sequence (all of it when it has no more)
LastEntries(q, n) ==
    IF Len(q) <= n THEN q ELSE [k \in 1..n |-> q[Len(q) - n + k]]

\* C25: the cycle appends exactly one entry to the history ring, its
\* consolidated detection set (an empty one included), after the entries
\* found, and the ring keeps the last five: with five entries found the
\* oldest goes, the rest move up in order, and never more than five remain.
C25_RingHoldsLastFive ==
    cycle_call.applied =>
        /\ cycle_call.out.p.history =
              LastEntries(cycle_call.history \o <<cycle_call.out.p.all_targets>>, 5)
        /\ Len(cycle_call.out.p.history) <= 5
        /\ Len(cycle_call.out.p.history) >= 1

\* a full ring and a cycle without detections: the oldest entry is gone and
\* the empty set is the newest
C25_Witness ==
    /\ cycle_call.applied
    /\ Len(cycle_call.history) = 5
    /\ cycle_call.out.p.all_targets = <<>>
    /\ Len(cycle_call.out.p.history) = 5
    /\ cycle_call.out.p.history[1] = cycle_call.history[2]
    /\ cycle_call.out.p.history[4] = cycle_call.history[5]
    /\ cycle_call.out.p.history[5] = <<>>

\* in the running core every step leaves the history as it is or is a
\* cycle adding that cycle's consolidated set at the end
C25_OnlyCyclesAppend ==
    [][\/ detection_history' = detection_history
       \/ /\ cycles' = cycles + 1
          /\ detection_history' =
                LastEntries(Append(detection_history, obs'.p[1].all_targets), 5)]_vars

\* the same cycle run on the history h
SameCycleOnHistory(h) ==
    process_vector(cycle_call.c, cycle_call.patterns, h, cycle_call.frame,
                   cycle_call.button_5, cycle_call.button_7, cycle_call.button_9,
                   cycle_call.order)

\* the consolidated set of the call: what the consolidator makes of the
\* raw detections
ConsolidatedOfCall ==
    IF cycle_call.out.p.raw = <<>> THEN <<>>
    ELSE cluster_similar_enemies(cycle_call.out.p.raw)

\* C26: the history stage hands on the consolidated set as it came, same
\* detections in the same order, and on any other history of earlier cycles
\* the same frame, settings, pattern and buttons give the same targets, the
\* same selected target and the same vector words.
C26_HistoryDoesNotFilter ==
    cycle_call.applied =>
        /\ cycle_call.out.p.all_targets = ConsolidatedOfCall
        /\ \A h \in CallHistories :
              /\ SameCycleOnHistory(h).p.all_targets = cycle_call.out.p.all_targets
              /\ SameCycleOnHistory(h).p.best_target = cycle_call.out.p.best_target
              /\ SameCycleOnHistory(h).wx = cycle_call.out.wx
              /\ SameCycleOnHistory(h).wy = cycle_call.out.wy

\* a cycle with a target and a vector that is not zero, on a ring whose
\* last cycle had no detection
C26_Witness ==
    /\ cycle_call.applied
    /\ Len(cycle_call.history) = 5
    /\ cycle_call.history[5] = <<>>
    /\ cycle_call.out.p.best_target # <<>>
    /\ cycle_call.out.wx # <<0, 0>>

\* the ROI of the call
RoiOfCall == RoiOf(cycle_call.c, cycle_call.button_7)

\* what the detector returns on the frame as it came in, cut to the same
\* ROI, nothing drawn on it
DetectedUndrawn ==
    detect_with_pxd_patterns(
        ViewOf(cycle_call.frame, RoiOfCall, FALSE), cycle_call.patterns,
        IdentityVisit(NumLabels(ViewOf(cycle_call.frame, RoiOfCall, FALSE),
                                cycle_call.patterns)))

\* the cycle with the drawing of the ROI box switched off and nothing else
\* changed
SameCycleUndrawn ==
    process_vector([cycle_call.c EXCEPT !.showBoundingBox = FALSE],
                   cycle_call.patterns, cycle_call.history, cycle_call.frame,
                   cycle_call.button_5, cycle_call.button_7, cycle_call.button_9,
                   IdentityVisit(NumLabels(ViewOf(cycle_call.frame, RoiOfCall, FALSE),
                                           cycle_call.patterns)))

\* C27: what the core draws in a cycle does not reach that cycle's
\* detection: the detections are those of the incoming frame cut to the
\* ROI, and (the components labelled in the same, raster, order) the
\* selected target and the vector are those of the same cycle run without
\* drawing.
C27_DrawingDoesNotReachDetection ==
    cycle_call.applied =>
        /\ BagOf(cycle_call.out.p.raw) = BagOf(DetectedUndrawn.raw)
        /\ cycle_call.order = IdentityVisit(Len(cycle_call.order)) =>
              /\ cycle_call.out.p.best_target = SameCycleUndrawn.p.best_target
              /\ cycle_call.out.wx = SameCycleUndrawn.wx
              /\ cycle_call.out.wy = SameCycleUndrawn.wy

\* the part that holds: no pixel of the drawn box is itself detected, the
\* detections with the box drawn all lie inside components of the incoming
\* frame
C27_DrawnPixelsAreNotDetected ==
    cycle_call.applied =>
        \A i \in 1..Len(cycle_call.out.p.raw) :
            \E j \in 1..Len(DetectedUndrawn.raw) :
                /\ DetectedUndrawn.raw[j].coords[1] <= cycle_call.out.p.raw[i].coords[1]
                /\ DetectedUndrawn.raw[j].coords[2] <= cycle_call.out.p.raw[i].coords[2]
                /\ cycle_call.out.p.raw[i].coords[3] <= DetectedUndrawn.raw[j].coords[3]
                /\ cycle_call.out.p.raw[i].coords[4] <= DetectedUndrawn.raw[j].coords[4]

\* the same cycle with button_5 and button_7 as given
SameCycleOnButtons(b5, b7) ==
    process_vector(cycle_call.c, cycle_call.patterns, cycle_call.history,
                   cycle_call.frame, b5, b7, cycle_call.button_9, cycle_call.order)

\* C30: a cycle differing in button_5 only, or in button_7 only while
\* adaptive mode is off, has the same vector words and records the same
\* history: the vector does not wait for either button, and button_7
\* changes it only where it changes the ROI.
C30_ButtonsDoNotGateTheVector ==
    cycle_call.applied =>
        /\ \A b5 \in ButtonValues :
              SameCycleOnButtons(b5, cycle_call.button_7) = cycle_call.out
        /\ \A b7 \in ButtonValues :
              (\/ ~cycle_call.c.adaptiveBoundingBox
               \/ RoiOf(cycle_call.c, b7) = RoiOfCall) =>
                    SameCycleOnButtons(cycle_call.button_5, b7) = cycle_call.out

\* both buttons released, adaptive mode off, and a vector that is not zero
C30_Witness ==
    /\ cycle_call.applied
    /\ cycle_call.button_5 = 0 /\ cycle_call.button_7 = 0
    /\ ~cycle_call.c.adaptiveBoundingBox
    /\ cycle_call.out.p.best_target # <<>>
    /\ cycle_call.out.wx # <<0, 0>>
    /\ cycle_call.out.wy # <<0, 0>>

----------------------------------------------------------------------------
(* cluster_similar_enemies on a detection list and on its permutations *)

\* detections of pairwise different areas: three in a row with centres
\* (100,100), (106,100), (115,100), the outer two 15 apart; one at (106,108),
\* 10 from the first and 8 from the second; one far from all at (143,100)
ChainDets ==
    {MkDet(97, 97, 6, 6, 36), MkDet(103, 97, 6, 6, 30), MkDet(112, 97, 7, 6, 42),
     MkDet(103, 105, 6, 6, 25), MkDet(140, 97, 6, 6, 49)}

\* the list in the order perm
Permuted(dets, perm) == [i \in 1..Len(dets) |-> dets[perm[i]]]

PermuteInit ==
    /\ PipelineInit
    /\ \E dets \in SeqsUpTo(ChainDets, MaxDets) :
       \E perm \in Perms(Len(dets)) :
          consolidation = [NoCall EXCEPT !.dets = dets, !.visit = perm]
    /\ lock_call = NoLockCall
    /\ detect_call = NoDetectCall
    /\ roi_call = NoRoiCall
    /\ cycle_call = NoCycleCall

\* two calls: on the list, and on the list permuted by `visit`
ConsolidateBoth ==
    /\ ~consolidation.applied
    /\ consolidation' =
          [consolidation EXCEPT
              !.applied = TRUE,
              !.clusters = ClustersVisited(consolidation.dets,
                                           IdentityVisit(Len(consolidation.dets))),
              !.kept = cluster_similar_enemies(consolidation.dets),
              !.kept_visited = cluster_similar_enemies(
                                  Permuted(consolidation.dets, consolidation.visit))]
    /\ UNCHANGED <<gcvdata, cycles, outcome, cached, last_file_mtime,
                   settings_checked, settings_module, settings_file, pxd_patterns,
                   active_pxd_file, pxd_checked, pxd_control, pxd_loadable,
                   detection_history, obs, edits, lock_call, detect_call,
                   roi_call, cycle_call>>

PermuteNext == ConsolidateBoth

SpecPermute == PermuteInit /\ [][PermuteNext]_vars

\* the areas of the list are pairwise different
DistinctAreas(dets) ==
    \A i, j \in 1..Len(dets) : i # j => dets[i].area # dets[j].area

\* the centres of two detections are less than 10 pixels apart
Near(a, b) == CenterDist2(a, b) < 100

\* nearness splits the list into groups: two detections near a third are
\* near each other
NearIsTransitive(dets) ==
    \A i, j, k \in 1..Len(dets) :
        (Near(dets[i], dets[j]) /\ Near(dets[j], dets[k])) => Near(dets[i], dets[k])

\* C29 as stated: for a list of pairwise different areas, every permutation
\* of the list is consolidated to the same multiset of detections.
C29_AnyInputOrderSameKept ==
    (consolidation.applied /\ DistinctAreas(consolidation.dets)) =>
        BagOf(consolidation.kept_visited) = BagOf(consolidation.kept)

\* C29 (amended): for a list of pairwise different areas in which two
\* detections near a third are near each other, every permutation of the
\* list is consolidated to the same multiset of detections, one per group:
\* the group's largest.
C29_InputOrderSameKeptWhenNearIsTransitive ==
    (/\ consolidation.applied
     /\ DistinctAreas(consolidation.dets)
     /\ NearIsTransitive(consolidation.dets)) =>
        /\ BagOf(consolidation.kept_visited) = BagOf(consolidation.kept)
        /\ \A i \in 1..Len(consolidation.dets) :
              \E k \in 1..Len(consolidation.kept) :
                 /\ Near(consolidation.dets[i], consolidation.kept[k])
                 /\ consolidation.dets[i].area <= consolidation.kept[k].area

\* two near detections and a far one, given in reverse: the smaller of the
\* near pair is the seed in one order and absorbed in the other
C29_Witness ==
    /\ consolidation.applied
    /\ consolidation.dets = <<MkDet(103, 97, 6, 6, 30), MkDet(97, 97, 6, 6, 36),
                              MkDet(140, 97, 6, 6, 49)>>
    /\ consolidation.visit = <<3, 2, 1>>
    /\ Len(consolidation.kept) = 2
    /\ BagOf(consolidation.kept_visited) = BagOf(consolidation.kept)

----------------------------------------------------------------------------
(* The pattern poll on its own, cycle after cycle without end, with the    *)
(* control file and the pattern files changing under it                    *)

\* one call of check_pxd_control(); the poll is due when the interval has
\* passed since the last one, and always on the first call
PollPxd(due) ==
    /\ \E px \in {check_pxd_control(
                    [pxd_patterns |-> pxd_patterns, active_pxd_file |-> active_pxd_file],
                    pxd_control, pxd_loadable, due \/ ~pxd_checked)} :
          /\ pxd_patterns' = px.pxd_patterns
          /\ active_pxd_file' = px.active_pxd_file
          /\ pxd_checked' = TRUE
    /\ UNCHANGED <<gcvdata, cycles, outcome, cached, last_file_mtime,
                   settings_checked, settings_module, settings_file, pxd_control,
                   pxd_loadable, detection_history, obs, edits, callVars>>

PollNext ==
    \/ \E due \in BOOLEAN : PollPxd(due)
    \/ \E c \in ControlStates : WriteControl(c)
    \/ \E n \in PxdNames : TogglePxdFile(n)

\* the host keeps calling process() and the clock keeps running: a poll
\* that is due and would change something is not put off for ever
SpecPoll == InitDisk /\ [][PollNext]_vars /\ WF_vars(PollPxd(TRUE))

\* the core holds the pattern of file n as its active pattern
Holds(n) == active_pxd_file = n /\ pxd_patterns = <<PatternOf(n)>>

\* C28: if from some poll on the control file keeps naming the same pattern
\* file and that file is loadable, the core eventually holds that file's
\* pattern as its active pattern, an earlier failed load notwithstanding.
C28_PatternRefreshConverges ==
    \A n \in PxdNames :
        <>[](pxd_control = n /\ n \in pxd_loadable) => <>Holds(n)

\* what does hold: the core comes to name the selected file as active, and
\* holds its pattern when the file was loadable at the poll that first saw
\* the name
C28_ActiveNameConverges ==
    \A n \in PxdNames : <>[](pxd_control = n) => <>[](active_pxd_file = n)

====
